---- MODULE Spec2Model ----
(***************************************************************************)
(* Client scripts of TechGuidesV2.                                         *)
(*                                                                         *)
(* Case form runtime: the lookup handler of static/js/case-form.js         *)
(* (setupDependencies), and the visibility rules and the validation of     *)
(* static/js/enhanced-case-form.js.                                        *)
(* Template builder: EnhancedTemplateEditor of static/js/case-form.js.     *)
(* Template form editor: static/js/template-editor.js.                     *)
(*                                                                         *)
(* A DOM string is a sequence of one-character strings, so that trim() and *)
(* includes() are computed and not assumed.                                *)
(***************************************************************************)
EXTENDS Naturals, Integers, Sequences, FiniteSets, TLC

VARIABLES
    fields,          \* ids of the form fields present in the document
    containers,      \* the fields that sit inside a .field-container
    dependencies,    \* the embedded dependency list (data-dependencies)
    relations,       \* the argument of setupDependencies: fieldId -> config
    value,           \* fieldId -> the element's .value
    visible,         \* fieldId -> its container's style.display # 'none'
    depListeners,    \* indices of dependencies with a change listener, in
                     \* registration order
    lookupListeners, \* the fields setupDependencies gave a change listener
    inflight,        \* fetches issued and not yet settled
    nextSeq,         \* issue number of the next fetch
    completed,       \* the fetches that have settled
    pc,              \* "rendered" | "ready" | "eval" | "evaluated" on the case
                     \* form, "builder" | "template" | "validate" elsewhere
    last,            \* the event handled by the latest step
    templateEditor,  \* the EnhancedTemplateEditor instance: fields,
                     \* currentFieldType, editingFieldIndex
    fieldsList,      \* the .field-card elements of #fieldsList, in DOM order
    modal,           \* #fieldConfigModal: shown, and the inputs of its form
    fieldIndex,      \* the global counter of template-editor.js
    fieldEditors,    \* the .field-editor elements of #fields-container
    timers,          \* setTimeout callbacks of template-editor.js not yet run
    attributes,      \* fieldId -> type, required and maxlength of a .case-field
    feedback,        \* fieldId -> what its container shows: "", "valid" or
                     \* the error message
    ratingField,     \* a .rating-field: the colour of each label, the checked
                     \* input, and the label under the pointer
    selectField      \* a .data-table-lookup <select> and its search input

formVars == <<fields, containers, dependencies, relations, value, visible,
              depListeners, lookupListeners, inflight, nextSeq, completed, pc>>

editorVars == <<templateEditor, fieldsList, modal, fieldIndex, fieldEditors, timers>>

validationVars == <<attributes, feedback>>

widgetVars == <<ratingField, selectField>>

vars == <<formVars, last, editorVars, validationVars, widgetVars>>

----------------------------------------------------------------------------
(* Bounds and input sets *)

MaxLen == 3          \* longest trigger value drawn for the rule evaluator
MaxCmpLen == 2       \* longest comparison value drawn for the rule evaluator
MaxRequests == 2     \* fetches issued in one run of the form

Chars == {"a", "b", " "}
Whitespace == {" "}

SeqsUpTo(n) == UNION {[1..k -> Chars] : k \in 0..n}

\* "abc-123", "123" and "999"
ExampleTrigger == <<"a", "b", "c", "-", "1", "2", "3">>
ExampleHit == <<"1", "2", "3">>
ExampleMiss == <<"9", "9", "9">>

TriggerValues == SeqsUpTo(MaxLen) \cup {ExampleTrigger}
ComparisonValues == SeqsUpTo(MaxCmpLen) \cup {ExampleHit, ExampleMiss}

\* what a user types into a field of the running form
UserInputs == {<<>>, <<" ">>, <<"a">>}

\* what the backend returns for a column
Columns == {"c1", "c2"}
RowVals == {<<>>, <<"a">>, <<"b">>}
Rows == UNION {[D -> RowVals] : D \in SUBSET Columns}
\* the data a success:false body may still carry
RejectedRows == {<<>>, [c \in Columns |-> <<"b">>]}

Conditions == {"equals", "not_equals", "contains", "not_empty", "empty", "starts_with"}
Recognised == {"equals", "not_equals", "contains", "not_empty", "empty"}

----------------------------------------------------------------------------
(* JavaScript string primitives *)

\* ToBoolean of a string: only '' is falsy
truthy(s) == s # <<>>

RECURSIVE trimStart(_)
trimStart(s) ==
    IF s # <<>> /\ Head(s) \in Whitespace THEN trimStart(Tail(s)) ELSE s

RECURSIVE trimEnd(_)
trimEnd(s) ==
    IF s # <<>> /\ s[Len(s)] \in Whitespace
    THEN trimEnd(SubSeq(s, 1, Len(s) - 1))
    ELSE s

\* String.prototype.trim
trim(s) == trimEnd(trimStart(s))

\* String.prototype.includes: a left-to-right search for the first match
RECURSIVE searchFrom(_, _, _)
searchFrom(s, sub, i) ==
    IF i + Len(sub) - 1 > Len(s) THEN FALSE
    ELSE IF SubSeq(s, i, i + Len(sub) - 1) = sub THEN TRUE
    ELSE searchFrom(s, sub, i + 1)

\* as includes, with receiver and argument exchanged
includes_swapped(s, sub) == searchFrom(sub, s, 1)

includes(s, sub) == searchFrom(s, sub, 1)

----------------------------------------------------------------------------
(* The dependency rule evaluator (enhanced-case-form.js) *)

Rule(tr, tg, c, v) == [triggerId |-> tr, targetId |-> tg, condition |-> c, value |-> v]

\* as shouldShow, with 'not_empty' not trimming the trigger value
shouldShow_untrimmedNotEmpty(dependency, triggerValue) ==
    CASE dependency.condition = "equals" -> triggerValue = dependency.value
      [] dependency.condition = "not_equals" -> triggerValue # dependency.value
      [] dependency.condition = "contains" -> includes(triggerValue, dependency.value)
      [] dependency.condition = "not_empty" -> truthy(triggerValue)
      [] dependency.condition = "empty" ->
            ~truthy(triggerValue) \/ trim(triggerValue) = <<>>
      [] OTHER -> TRUE

\* as shouldShow, with the default branch leaving shouldShow false
shouldShow_failClosed(dependency, triggerValue) ==
    CASE dependency.condition = "equals" -> triggerValue = dependency.value
      [] dependency.condition = "not_equals" -> triggerValue # dependency.value
      [] dependency.condition = "contains" -> includes(triggerValue, dependency.value)
      [] dependency.condition = "not_empty" ->
            truthy(triggerValue) /\ trim(triggerValue) # <<>>
      [] dependency.condition = "empty" ->
            ~truthy(triggerValue) \/ trim(triggerValue) = <<>>
      [] OTHER -> FALSE

\* the switch of evaluateFieldDependency, as the truthiness of shouldShow
shouldShow(dependency, triggerValue) ==
    CASE dependency.condition = "equals" -> triggerValue = dependency.value
      [] dependency.condition = "not_equals" -> triggerValue # dependency.value
      [] dependency.condition = "contains" -> includes(triggerValue, dependency.value)
      [] dependency.condition = "not_empty" ->
            truthy(triggerValue) /\ trim(triggerValue) # <<>>
      [] dependency.condition = "empty" ->
            ~truthy(triggerValue) \/ trim(triggerValue) = <<>>
      [] OTHER -> TRUE

\* evaluateFieldDependency on dom = [value, visible]; cs is the set of fields
\* that have a .field-container, whose .case-field is the field itself
evaluateFieldDependency(dependency, triggerValue, dom, cs) ==
    LET t == dependency.targetId IN
    IF t \notin cs THEN dom
    ELSE IF shouldShow(dependency, triggerValue)
         THEN [dom EXCEPT !.visible[t] = TRUE]
         ELSE [dom EXCEPT !.visible[t] = FALSE, !.value[t] = <<>>]

\* a rule gets a listener only when both of its fields are in the document
wirable(dependency, fs) == dependency.triggerId \in fs /\ dependency.targetId \in fs

\* the forEach of initializeFieldDependencies over rules i..Len(deps): each
\* wired rule is evaluated against its trigger's value at that moment
RECURSIVE initialEvaluation(_, _, _, _, _)
initialEvaluation(deps, i, dom, fs, cs) ==
    IF i > Len(deps) THEN dom
    ELSE IF wirable(deps[i], fs)
         THEN initialEvaluation(deps, i + 1,
                  evaluateFieldDependency(deps[i], dom.value[deps[i].triggerId], dom, cs),
                  fs, cs)
         ELSE initialEvaluation(deps, i + 1, dom, fs, cs)

\* as wiredRules, with one listener per trigger field: a rule gets none when
\* an earlier rule has wired the same trigger
RECURSIVE wiredRules_perTrigger(_, _, _)
wiredRules_perTrigger(deps, i, fs) ==
    IF i > Len(deps) THEN <<>>
    ELSE (IF wirable(deps[i], fs)
             /\ \A j \in 1..(i - 1) :
                    ~(wirable(deps[j], fs) /\ deps[j].triggerId = deps[i].triggerId)
          THEN <<i>> ELSE <<>>) \o wiredRules_perTrigger(deps, i + 1, fs)

\* the listeners initializeFieldDependencies registers, in registration order
RECURSIVE wiredRules(_, _, _)
wiredRules(deps, i, fs) ==
    IF i > Len(deps) THEN <<>>
    ELSE (IF wirable(deps[i], fs) THEN <<i>> ELSE <<>>) \o wiredRules(deps, i + 1, fs)

\* as dispatchChange, with only the first listener registered on f running
dispatchChange_firstWins(deps, ls, k, f, dom, cs) ==
    LET on == {j \in k..Len(ls) : deps[ls[j]].triggerId = f} IN
    IF on = {} THEN dom
    ELSE LET j == CHOOSE x \in on : \A y \in on : x <= y
         IN evaluateFieldDependency(deps[ls[j]], dom.value[f], dom, cs)

\* dispatch of one change event on field f: the listeners registered on f run
\* in registration order, each reading this.value when it runs
RECURSIVE dispatchChange(_, _, _, _, _, _)
dispatchChange(deps, ls, k, f, dom, cs) ==
    IF k > Len(ls) THEN dom
    ELSE IF deps[ls[k]].triggerId = f
         THEN dispatchChange(deps, ls, k + 1, f,
                  evaluateFieldDependency(deps[ls[k]], dom.value[f], dom, cs), cs)
         ELSE dispatchChange(deps, ls, k + 1, f, dom, cs)

----------------------------------------------------------------------------
(* The lookup handler (case-form.js, setupDependencies) *)

Lookup(tb, mc, cols, tgts) ==
    [table |-> tb, match_column |-> mc, return_columns |-> cols, targets |-> tgts]

\* as returned, with '' for the fallback: data.data[...] || ''
returned_clearing(config, idx, row, prior) ==
    IF idx <= Len(config.return_columns)
       /\ config.return_columns[idx] \in DOMAIN row
       /\ truthy(row[config.return_columns[idx]])
    THEN row[config.return_columns[idx]]
    ELSE <<>>

\* data.data[config.return_columns[idx]] || dest.value
returned(config, idx, row, prior) ==
    IF idx <= Len(config.return_columns)
       /\ config.return_columns[idx] \in DOMAIN row
       /\ truthy(row[config.return_columns[idx]])
    THEN row[config.return_columns[idx]]
    ELSE prior

\* config.targets.forEach((target, idx) => ...) from pair idx on
RECURSIVE applyRow(_, _, _, _, _)
applyRow(config, idx, row, val, fs) ==
    IF idx > Len(config.targets) THEN val
    ELSE IF config.targets[idx] \in fs
         THEN applyRow(config, idx + 1, row,
                  [val EXCEPT ![config.targets[idx]] =
                       returned(config, idx, row, val[config.targets[idx]])],
                  fs)
         ELSE applyRow(config, idx + 1, row, val, fs)

\* as onResponse, without the data.success test
onResponse_ignoringSuccess(config, success, row, val, fs) ==
    applyRow(config, 1, row, val, fs)

\* the .then(data => ...) handler: the row is applied only when data.success
onResponse(config, success, row, val, fs) ==
    IF success THEN applyRow(config, 1, row, val, fs) ELSE val

\* setupDependencies: the fields that get the lookup change listener
setupDependencies(rel, fs) == {f \in DOMAIN rel : f \in fs}

\* the URL and the fixed part of the body of the fetch issued for field f;
\* body.value and body.return_columns never reach the client state again
request(f, config, n) ==
    [seq |-> n, src |-> f, table |-> config.table, match_column |-> config.match_column]

\* as issue, aborting the fetches the same field still has in flight
issue_cancelling(pending, f, config, n) ==
    {r \in pending : r.src # f} \cup {request(f, config, n)}

\* the change listener of setupDependencies: one more fetch, whatever is
\* already in flight and whatever config.table and config.match_column hold
issue(pending, f, config, n) == pending \cup {request(f, config, n)}

----------------------------------------------------------------------------
(* Form load (enhanced-case-form.js, initializeEnhancedCaseForm) *)

initializeFieldDependencies(deps, dom, fs, cs) ==
    [dom |-> initialEvaluation(deps, 1, dom, fs, cs),
     listeners |-> wiredRules(deps, 1, fs)]

initializeEnhancedCaseForm(deps, dom, fs, cs) ==
    IF Len(deps) > 0
    THEN initializeFieldDependencies(deps, dom, fs, cs)
    ELSE [dom |-> dom, listeners |-> <<>>]

----------------------------------------------------------------------------
(* The pages the form is loaded on *)

FormFields == {"A", "B", "T"}      \* "Z" is named by rules but not rendered
FormContainers == {"A", "T"}       \* B sits outside any .field-container

DependencyLists ==
    { <<>>,
      <<Rule("A", "T", "not_empty", <<>>)>>,
      <<Rule("A", "T", "equals", <<"a">>), Rule("B", "T", "empty", <<>>)>>,
      <<Rule("A", "T", "contains", <<"a">>), Rule("A", "T", "not_equals", <<"a">>)>>,
      <<Rule("B", "T", "starts_with", <<"a">>)>>,
      <<Rule("Z", "T", "empty", <<>>), Rule("A", "Z", "empty", <<>>),
        Rule("B", "T", "not_empty", <<>>)>>,
      <<Rule("B", "A", "equals", <<"a">>), Rule("A", "B", "empty", <<>>)>> }

RelationSets ==
    { <<>>,
      "A" :> Lookup("customers", "id", <<"c1", "c2">>, <<"T", "B">>),
      ("A" :> Lookup("", "id", <<"c1">>, <<"T">>))
          @@ ("B" :> Lookup("customers", "", <<"c1">>, <<"T">>)),
      ("B" :> Lookup("customers", "id", <<"c1">>, <<"T", "A">>))
          @@ ("Z" :> Lookup("customers", "id", <<"c1">>, <<"T">>)),
      ("A" :> Lookup("customers", "id", <<"c2", "c1">>, <<"Z", "T">>))
          @@ ("B" :> Lookup("orders", "id", <<"c1">>, <<"T">>)) }

NoEvent ==
    [kind |-> "none", field |-> "", typed |-> <<>>, seq |-> 0,
     outcome |-> "", row |-> <<>>]

\* no template builder and no template form editor on this page
noEditor ==
    /\ templateEditor = [fields |-> <<>>, currentFieldType |-> "null",
                         editingFieldIndex |-> -1]
    /\ fieldsList = <<>>
    /\ modal = [shown |-> FALSE, form |-> <<>>]
    /\ fieldIndex = 0
    /\ fieldEditors = <<>>
    /\ timers = <<>>

\* no validation has run and the page declares no field attributes
noValidation ==
    /\ attributes = <<>>
    /\ feedback = <<>>

\* the page has no rating widget and no table-backed <select>
noWidgets ==
    /\ ratingField = <<>>
    /\ selectField = <<>>

Init ==
    /\ fields = FormFields
    /\ containers = FormContainers
    /\ dependencies \in DependencyLists
    /\ relations \in RelationSets
    /\ value \in [FormFields -> {<<>>, <<"a">>}]
    /\ value["B"] = <<>>
    /\ visible = [f \in FormFields |-> TRUE]
    /\ depListeners = <<>>
    /\ lookupListeners = {}
    /\ inflight = {}
    /\ nextSeq = 1
    /\ completed = {}
    /\ pc = "rendered"
    /\ last = NoEvent
    /\ noEditor
    /\ noValidation
    /\ noWidgets

config == <<fields, containers, dependencies, relations>>

\* DOMContentLoaded: the visibility rules are wired and evaluated once, and
\* the page's inline script hands its relations to setupDependencies
Load ==
    /\ pc = "rendered"
    /\ LET r == initializeEnhancedCaseForm(dependencies,
                    [value |-> value, visible |-> visible], fields, containers)
       IN /\ value' = r.dom.value
          /\ visible' = r.dom.visible
          /\ depListeners' = r.listeners
    /\ lookupListeners' = setupDependencies(relations, fields)
    /\ pc' = "ready"
    /\ last' = [NoEvent EXCEPT !.kind = "load"]
    /\ UNCHANGED <<config, inflight, nextSeq, completed, editorVars, validationVars, widgetVars>>

\* the user commits a new value in a visible field: its change listeners run
UserChange(f, v) ==
    /\ pc = "ready"
    /\ f \in fields
    /\ visible[f]
    /\ v # value[f]
    /\ f \in lookupListeners => nextSeq <= MaxRequests
    /\ LET dom == dispatchChange(dependencies, depListeners, 1, f,
                      [value |-> [value EXCEPT ![f] = v], visible |-> visible],
                      containers)
       IN /\ value' = dom.value
          /\ visible' = dom.visible
    /\ IF f \in lookupListeners
       THEN /\ inflight' = issue(inflight, f, relations[f], nextSeq)
            /\ nextSeq' = nextSeq + 1
       ELSE UNCHANGED <<inflight, nextSeq>>
    /\ last' = [NoEvent EXCEPT !.kind = "change", !.field = f, !.typed = v]
    /\ UNCHANGED <<config, depListeners, lookupListeners, completed, pc>>
    /\ UNCHANGED <<editorVars, validationVars, widgetVars>>

\* a fetch resolves with a JSON body {success, data}
Resolve(r, success, row) ==
    /\ r \in inflight
    /\ inflight' = inflight \ {r}
    /\ completed' = completed \cup {r}
    /\ value' = onResponse(relations[r.src], success, row, value, fields)
    /\ last' = [NoEvent EXCEPT !.kind = "respond", !.field = r.src, !.seq = r.seq,
                               !.outcome = IF success THEN "ok" ELSE "rejected",
                               !.row = row]
    /\ UNCHANGED <<config, visible, depListeners, lookupListeners, nextSeq, pc>>
    /\ UNCHANGED <<editorVars, validationVars, widgetVars>>

\* a fetch rejects, or its body is not JSON: no .then handler runs
Fail(r) ==
    /\ r \in inflight
    /\ inflight' = inflight \ {r}
    /\ completed' = completed \cup {r}
    /\ last' = [NoEvent EXCEPT !.kind = "respond", !.field = r.src, !.seq = r.seq,
                               !.outcome = "transport"]
    /\ UNCHANGED <<config, value, visible, depListeners, lookupListeners, nextSeq, pc>>
    /\ UNCHANGED <<editorVars, validationVars, widgetVars>>

Change == \E f \in FormFields, v \in UserInputs : UserChange(f, v)
Succeed == \E r \in inflight, row \in Rows : Resolve(r, TRUE, row)
Reject == \E r \in inflight, row \in RejectedRows : Resolve(r, FALSE, row)
Drop == \E r \in inflight : Fail(r)

Next == Load \/ Change \/ Succeed \/ Reject \/ Drop

Spec == Init /\ [][Next]_vars

----------------------------------------------------------------------------
(* The rule evaluator on its own: two rules on one trigger "A", with targets  *)
(* "T" and "U", the conditions, the comparison value and the trigger value    *)
(* drawn from the bounded sets                                                *)

EvalFields == {"A", "T", "U"}
EvalContainers == {"T", "U"}

InitEval ==
    /\ fields = EvalFields
    /\ containers = EvalContainers
    /\ \E c1 \in Conditions, c2 \in Conditions, cv \in ComparisonValues :
          dependencies = <<Rule("A", "T", c1, cv), Rule("A", "U", c2, cv)>>
    /\ relations = <<>>
    /\ \E tv \in TriggerValues, t \in {<<TRUE, <<>> >>, <<TRUE, <<"a">> >>, <<FALSE, <<>> >>} :
          /\ value = [f \in EvalFields |->
                         IF f = "A" THEN tv ELSE IF f = "T" THEN t[2] ELSE <<"b">>]
          /\ visible = [f \in EvalFields |-> IF f = "T" THEN t[1] ELSE TRUE]
    /\ depListeners = <<>>
    /\ lookupListeners = {}
    /\ inflight = {}
    /\ nextSeq = 1
    /\ completed = {}
    /\ pc = "eval"
    /\ last = NoEvent
    /\ noEditor
    /\ noValidation
    /\ noWidgets

\* evaluateFieldDependency(dependency, triggerField.value) for both rules
Evaluate ==
    /\ pc = "eval"
    /\ LET d1 == evaluateFieldDependency(dependencies[1], value["A"],
                     [value |-> value, visible |-> visible], containers)
           d2 == evaluateFieldDependency(dependencies[2], d1.value["A"], d1, containers)
       IN /\ value' = d2.value
          /\ visible' = d2.visible
    /\ pc' = "evaluated"
    /\ last' = [NoEvent EXCEPT !.kind = "evaluate", !.field = "A", !.typed = value["A"]]
    /\ UNCHANGED <<config, depListeners, lookupListeners, inflight, nextSeq, completed>>
    /\ UNCHANGED <<editorVars, validationVars, widgetVars>>

NextEval == Evaluate

SpecEval == InitEval /\ [][NextEval]_vars

----------------------------------------------------------------------------
(* Properties of the running form (Spec) *)

\* pair idx of a lookup config has its column in the row
present(cfg, idx, row) ==
    idx <= Len(cfg.return_columns) /\ cfg.return_columns[idx] \in DOMAIN row

okResponse(e) == e.kind = "respond" /\ e.outcome = "ok"
failedResponse(e) == e.kind = "respond" /\ e.outcome \in {"rejected", "transport"}

\* C1: no field whose container is hidden holds a non-empty value, whatever
\* sequence of trigger changes, rule evaluations and lookup responses led here.
C1_HiddenFieldHoldsNoValue ==
    \A f \in fields : ~visible[f] => value[f] = <<>>

\* C2 as stated: after a successful lookup every pair whose column is in the
\* returned row has set its target to the returned value, and every pair whose
\* column is absent has left its target as it was.
C2_SetOnPresent ==
    [][okResponse(last') =>
          LET cfg == relations[last'.field]
              row == last'.row
          IN \A idx \in 1..Len(cfg.targets) :
                cfg.targets[idx] \in fields =>
                    IF present(cfg, idx, row)
                    THEN value'[cfg.targets[idx]] = row[cfg.return_columns[idx]]
                    ELSE value'[cfg.targets[idx]] = value[cfg.targets[idx]]]_vars

\* C2 amended: after a successful lookup every pair whose column is in the
\* returned row with a non-empty value has set its target to that value; every
\* pair whose column is absent, or present with an empty value, has left its
\* target as it was; and no other field has changed.
C2_SetOnNonEmptyElseKeep ==
    [][okResponse(last') =>
          LET cfg == relations[last'.field]
              row == last'.row
          IN /\ \A idx \in 1..Len(cfg.targets) :
                   cfg.targets[idx] \in fields =>
                       IF present(cfg, idx, row) /\ row[cfg.return_columns[idx]] # <<>>
                       THEN value'[cfg.targets[idx]] = row[cfg.return_columns[idx]]
                       ELSE value'[cfg.targets[idx]] = value[cfg.targets[idx]]
             /\ \A f \in fields :
                   (\A idx \in 1..Len(cfg.targets) : cfg.targets[idx] # f)
                       => value'[f] = value[f]]_vars

\* a response has just set T from column c1 and, its column c2 missing from the
\* row, left the value typed into B alone
C2_Witness ==
    /\ okResponse(last)
    /\ relations[last.field].targets = <<"T", "B">>
    /\ DOMAIN last.row = {"c1"}
    /\ last.row["c1"] = <<"b">>
    /\ value["T"] = <<"b">>
    /\ value["B"] = <<"a">>

\* C3: a change of the trigger leaves the earlier fetches in flight, every
\* response is handled whatever its issue number, and a successful one writes
\* its non-empty columns into the targets even when a fetch issued after it
\* has already settled: the response that settles last decides the value.
C3_CompletionOrderWins ==
    [][/\ last'.kind = "change" => inflight \subseteq inflight'
       /\ last'.kind = "respond" =>
             \E r \in inflight :
                 /\ r.seq = last'.seq
                 /\ inflight' = inflight \ {r}
                 /\ completed' = completed \cup {r}
       /\ okResponse(last') =>
             LET cfg == relations[last'.field]
                 row == last'.row
             IN \A idx \in 1..Len(cfg.targets) :
                   (/\ cfg.targets[idx] \in fields
                    /\ present(cfg, idx, row)
                    /\ row[cfg.return_columns[idx]] # <<>>)
                       => value'[cfg.targets[idx]] = row[cfg.return_columns[idx]]]_vars

\* the fetch issued first has settled after the one issued second, and its
\* value is the one T holds
C3_Witness ==
    /\ okResponse(last)
    /\ \E r \in completed : r.src = last.field /\ r.seq > last.seq
    /\ relations[last.field].targets[1] = "T"
    /\ relations[last.field].return_columns[1] \in DOMAIN last.row
    /\ value["T"] = last.row[relations[last.field].return_columns[1]]
    /\ value["T"] # <<>>

\* C4: a field has at most one lookup fetch in flight.
C4_OneFetchPerField ==
    \A r1 \in inflight, r2 \in inflight : r1.src = r2.src => r1 = r2

\* C5: a lookup that fails, by a transport or parse error or by a success:false
\* body, changes no field's value or visibility and leaves every listener in
\* place, so the form goes on handling trigger changes.
C5_FailedLookupIsNoOp ==
    [][failedResponse(last') =>
          /\ value' = value
          /\ visible' = visible
          /\ depListeners' = depListeners
          /\ lookupListeners' = lookupListeners
          /\ pc' = "ready"]_vars

\* a success:false body that carried data has been handled and T still holds
\* what was typed into it
C5_Witness ==
    /\ failedResponse(last)
    /\ last.outcome = "rejected"
    /\ last.row # <<>>
    /\ "T" \in {relations[last.field].targets[i] :
                   i \in 1..Len(relations[last.field].targets)}
    /\ value["T"] = <<"a">>
    /\ last.field \in lookupListeners

\* C6: no fetch is issued for a rule whose table name or match column is empty.
C6_EmptyTableOrColumnIssuesNothing ==
    \A r \in inflight : r.table # "" /\ r.match_column # ""

\* the wired rules of the list that target field t
rulesOn(t) ==
    {i \in 1..Len(dependencies) :
        wirable(dependencies[i], fields) /\ dependencies[i].targetId = t}

\* the wired rules that target t and listen to field f
rulesFromOn(f, t) == {i \in rulesOn(t) : dependencies[i].triggerId = f}

lastOf(S) == CHOOSE i \in S : \A j \in S : j <= i

\* no rule declared after rule i hides (and so clears) the trigger of rule i
readAsIs(i) ==
    \A j \in (i + 1)..Len(dependencies) :
        ~(/\ wirable(dependencies[j], fields)
          /\ dependencies[j].targetId = dependencies[i].triggerId
          /\ dependencies[j].targetId \in containers)

\* C10 as stated: after form load, and after a trigger event that concerns a
\* target, the target's visibility is the one computed by the last rule in
\* declaration order among all the rules that target it.
C10_LastDeclaredRuleWins ==
    \A t \in containers :
        LET decides ==
                \/ last.kind = "load" /\ Len(dependencies) > 0
                \/ last.kind = "change" /\ rulesFromOn(last.field, t) # {}
        IN (decides /\ rulesOn(t) # {} /\ readAsIs(lastOf(rulesOn(t))))
              => visible[t] =
                    shouldShow(dependencies[lastOf(rulesOn(t))],
                               value[dependencies[lastOf(rulesOn(t))].triggerId])

\* C10 amended: after a trigger event the target's visibility is the one
\* computed by the last rule in declaration order among the rules that target
\* it and listen to the changed field (the rules on other triggers are not
\* evaluated again); after form load it is the one computed by the last rule
\* among all the rules that target it.
C10_LastEvaluatedRuleWins ==
    \A t \in containers :
        /\ (last.kind = "load" /\ Len(dependencies) > 0 /\ rulesOn(t) # {}
                /\ readAsIs(lastOf(rulesOn(t))))
              => visible[t] =
                    shouldShow(dependencies[lastOf(rulesOn(t))],
                               value[dependencies[lastOf(rulesOn(t))].triggerId])
        /\ (last.kind = "change" /\ rulesFromOn(last.field, t) # {}
                /\ value[last.field] = last.typed)
              => visible[t] =
                    shouldShow(dependencies[lastOf(rulesFromOn(last.field, t))],
                               last.typed)

\* two rules on trigger A target T, the first one computes "show" and the
\* second one "hide" for the value just typed, and T is hidden
C10_Witness ==
    /\ last.kind = "change"
    /\ last.field = "A"
    /\ rulesFromOn("A", "T") = {1, 2}
    /\ shouldShow(dependencies[1], last.typed)
    /\ ~shouldShow(dependencies[2], last.typed)
    /\ ~visible["T"]

----------------------------------------------------------------------------
(* Properties of the rule evaluator (SpecEval) *)

\* c occurs in t: t is some prefix, then c, then some suffix
isSubstring(c, t) ==
    \E i \in 0..Len(t), j \in 0..Len(t) : i <= j /\ SubSeq(t, i + 1, j) = c

\* C7: for every trigger value, the empty string and whitespace-only strings
\* included, a rule with condition 'empty' and a rule with condition
\* 'not_empty' give opposite results: exactly one of the two targets is shown.
C7_EmptyNotEmptyComplement ==
    (/\ pc = "evaluated"
     /\ {dependencies[1].condition, dependencies[2].condition} = {"empty", "not_empty"})
        => visible["T"] # visible["U"]

\* a whitespace-only trigger value: the 'empty' rule shows T and the
\* 'not_empty' rule hides U
C7_Witness ==
    /\ pc = "evaluated"
    /\ dependencies[1].condition = "empty"
    /\ dependencies[2].condition = "not_empty"
    /\ value["A"] = <<" ", " ">>
    /\ visible["T"]
    /\ ~visible["U"]

\* C8: a rule with condition 'contains' shows its target exactly when the
\* comparison value occurs in the trigger value: "abc-123" with "123" shows,
\* with "999" hides.
C8_ContainsIsSubstring ==
    pc = "evaluated" =>
        /\ dependencies[1].condition = "contains"
              => visible["T"] = isSubstring(dependencies[1].value, value["A"])
        /\ dependencies[2].condition = "contains"
              => visible["U"] = isSubstring(dependencies[2].value, value["A"])
        /\ (/\ dependencies[1].condition = "contains"
            /\ value["A"] = ExampleTrigger
            /\ dependencies[1].value \in {ExampleHit, ExampleMiss})
              => visible["T"] = (dependencies[1].value = ExampleHit)

\* "abc-123" contains "123": T is shown
C8_Witness ==
    /\ pc = "evaluated"
    /\ dependencies[1].condition = "contains"
    /\ value["A"] = ExampleTrigger
    /\ dependencies[1].value = ExampleHit
    /\ visible["T"]

\* C9: a rule whose condition is none of equals, not_equals, contains,
\* not_empty, empty shows its target for every trigger value and leaves the
\* target's value as it was.
C9_UnknownConditionFailsOpen ==
    [][pc = "eval" =>
          /\ dependencies[1].condition \notin Recognised
                => visible'["T"] /\ value'["T"] = value["T"]
          /\ dependencies[2].condition \notin Recognised
                => visible'["U"] /\ value'["U"] = value["U"]]_vars

\* an unrecognised condition has been evaluated: T is shown and still holds
\* its value
C9_Witness ==
    /\ pc = "evaluated"
    /\ dependencies[1].condition = "starts_with"
    /\ visible["T"]
    /\ value["T"] = <<"a">>


----------------------------------------------------------------------------
(* Form load: which rules have been evaluated when the load step ends (Spec) *)

\* the wired visibility rule i has left its target as it prescribes for the
\* value its trigger holds
prescribed(i) ==
    LET d == dependencies[i] IN
    (wirable(d, fields) /\ d.targetId \in containers)
        => (visible[d.targetId] <=> shouldShow(d, value[d.triggerId]))

\* the lookup rule of source field f has been evaluated: a fetch for the
\* value f holds has been issued
lookedUp(f) == \E r \in inflight \cup completed : r.src = f

\* C11: when the form has loaded, every dependency rule has been evaluated
\* once against its trigger's current value, visibility rules and lookup
\* rules alike: every wired visibility rule's target is shown or hidden as
\* the rule prescribes, and every lookup rule whose source field is in the
\* form has had its lookup issued.
C11_LoadEvaluatesEveryRule ==
    last.kind = "load" =>
        /\ \A i \in 1..Len(dependencies) : prescribed(i)
        /\ \A f \in DOMAIN relations : f \in fields => lookedUp(f)


----------------------------------------------------------------------------
(* Template builder (case-form.js, EnhancedTemplateEditor): values *)

MaxFields == 3       \* fields a template holds in one run of the builder

\* a number of the script is a finite integer or NaN; JSON has null besides
Num(n) == [kind |-> "number", n |-> n]
NaN == [kind |-> "NaN", n |-> 0]
Null == [kind |-> "null", n |-> 0]

Digits ==
    "0" :> 0 @@ "1" :> 1 @@ "2" :> 2 @@ "3" :> 3 @@ "4" :> 4 @@
    "5" :> 5 @@ "6" :> 6 @@ "7" :> 7 @@ "8" :> 8 @@ "9" :> 9

RECURSIVE digitsValue(_, _, _)
digitsValue(s, i, acc) ==
    IF i > Len(s) \/ s[i] \notin DOMAIN Digits THEN acc
    ELSE digitsValue(s, i + 1, acc * 10 + Digits[s[i]])

\* parseInt(s), radix 10: leading whitespace, a sign, then the digits up to
\* the first other character; NaN when no digit follows
parseInt(s) ==
    LET t == trimStart(s)
        signed == t # <<>> /\ t[1] \in {"-", "+"}
        u == IF signed THEN Tail(t) ELSE t
    IN IF u = <<>> \/ u[1] \notin DOMAIN Digits THEN NaN
       ELSE Num((IF signed /\ t[1] = "-" THEN -1 ELSE 1) * digitsValue(u, 1, 0))

\* x || d for a number x: NaN and 0 are falsy
orDefault(x, d) == IF x.kind = "NaN" \/ x.n = 0 THEN Num(d) ELSE x

\* a.splice(i, 1), i counted from 0, on the array left behind
spliceOut(a, i) ==
    IF i >= Len(a) THEN a
    ELSE [k \in 1..(Len(a) - 1) |-> IF k <= i THEN a[k] ELSE a[k + 1]]

\* a.splice(i, 0, item), i counted from 0
spliceIn(a, i, item) ==
    LET at == IF i > Len(a) THEN Len(a) ELSE i
    IN [k \in 1..(Len(a) + 1) |->
           IF k <= at THEN a[k] ELSE IF k = at + 1 THEN item ELSE a[k - 1]]

\* what an array slot never written reads as
undefined ==
    [field_id |-> "undefined", field_name |-> "undefined", field_type |-> "undefined",
     is_required |-> 0, config |-> <<>>, validation_rules |-> <<>>, dependencies |-> <<>>]

\* a[i] = x, i counted from 0: a store past the end grows the array
assign(a, i, x) ==
    [k \in 1..(IF i + 1 > Len(a) THEN i + 1 ELSE Len(a)) |->
        IF k = i + 1 THEN x ELSE IF k <= Len(a) THEN a[k] ELSE undefined]

----------------------------------------------------------------------------
(* Template builder: the field configuration modal *)

FieldTypes == {"text", "select", "dependent_field"}

Row(v, l) == [value |-> v, label |-> l]

\* the inputs showFieldConfigModal leaves in the modal for a new field:
\* the form is reset and configureFieldTypeSettings rebuilds #fieldTypeConfig.
\* parents lists the <option>s of #parentField, which configureDependentField
\* renders only when the template has fields.
\* values holds the further inputs and selects the type renders, by id, and
\* checks its checkboxes. The value of a <select> is one token.
OptionTypes == {"select", "multiselect", "radio", "checkbox"}

renderedValues(fieldType) ==
    CASE fieldType = "textarea" -> [rows |-> <<"3">>]
      [] fieldType = "data_table_lookup" ->
            [dataTableSelect |-> <<>>, minSearchLength |-> <<"2">>,
             maxResults |-> <<"1", "0">>]
      [] fieldType = "autocomplete" ->
            [minSearchLength |-> <<"1">>, maxResults |-> <<"1", "0">>]
      [] fieldType = "date" -> [minDate |-> <<>>, maxDate |-> <<>>]
      [] fieldType = "file_upload" ->
            [maxFileSize |-> <<"1", "0">>, allowedTypes |-> <<>>]
      [] fieldType = "rating" -> [maxRating |-> <<"5">>, ratingStyle |-> <<"stars">>]
      [] OTHER -> <<>>

renderedChecks(fieldType) ==
    CASE fieldType \in OptionTypes -> [allowOther |-> FALSE]
      [] fieldType = "data_table_lookup" -> [searchable |-> TRUE, multiSelect |-> FALSE]
      [] fieldType = "autocomplete" -> [allowCustom |-> TRUE]
      [] fieldType = "file_upload" -> [multipleFiles |-> FALSE]
      [] fieldType = "rating" -> [allowHalf |-> FALSE]
      [] OTHER -> <<>>

configureFieldTypeSettings(fieldType, fs) ==
    [fieldId |-> "", fieldName |-> "", fieldRequired |-> FALSE,
     maxLength |-> IF fieldType \in {"text", "textarea"} THEN <<"2", "5", "5">> ELSE <<>>,
     optionRows |-> IF fieldType \in OptionTypes THEN <<Row(<<>>, <<>>)>> ELSE <<>>,
     parentField |-> "",
     parents |-> IF fieldType = "dependent_field"
                 THEN {fs[k].field_id : k \in 1..Len(fs)} ELSE {},
     values |-> renderedValues(fieldType),
     checks |-> renderedChecks(fieldType)]

\* populateFieldForm: the id, the name and the required box, nothing else
populateFieldForm(form, fieldData) ==
    [form EXCEPT !.fieldId = fieldData.field_id,
                 !.fieldName = fieldData.field_name,
                 !.fieldRequired = (fieldData.is_required # 0)]

\* showFieldConfigModal(fieldType, fieldData); fieldData is <<>> for null
showFieldConfigModal(fieldType, fieldData, fs) ==
    [shown |-> TRUE,
     form |-> IF fieldData = <<>>
              THEN configureFieldTypeSettings(fieldType, fs)
              ELSE populateFieldForm(configureFieldTypeSettings(fieldType, fs),
                                     fieldData[1])]

\* collectOptions over the .input-group rows i..Len(rows)
RECURSIVE collectOptions(_, _)
collectOptions(rows, i) ==
    IF i > Len(rows) THEN <<>>
    ELSE LET v == trim(rows[i].value)
             l == trim(rows[i].label)
         IN (IF truthy(v) THEN <<Row(v, IF truthy(l) THEN l ELSE v)>> ELSE <<>>)
                \o collectOptions(rows, i + 1)

\* this.fields.find(f => f.field_id === id), as <<>> or <<field>>
find(fs, id) ==
    LET hits == {k \in 1..Len(fs) : fs[k].field_id = id}
    IN IF hits = {} THEN <<>>
       ELSE <<fs[CHOOSE k \in hits : \A j \in hits : k <= j]>>

\* the dep-value-/dep-label- rows in the document for one parent option.
\* They are rendered by updateDependentOptions, which #parentField calls as
\* this.updateDependentOptions() with this bound to the <select>: the call
\* throws and #dependentOptionsConfig stays empty.
dependentRows(optionValue) == <<>>

\* collectDependentOptions
collectDependentOptions(form, fs) ==
    LET parentField == find(fs, form.parentField) IN
    IF parentField = <<>> \/ "options" \notin DOMAIN parentField[1].config
    THEN <<>>
    ELSE LET options == parentField[1].config.options
         IN [v \in {options[k].value : k \in 1..Len(options)} |->
                 collectOptions(dependentRows(v), 1)]

\* document.getElementById(id)?.value and ?.checked: undefined, which is
\* falsy like '' and false, when the modal has no such element
valueOf(form, id) == IF id \in DOMAIN form.values THEN form.values[id] ELSE <<>>

checkedOf(form, id) == IF id \in DOMAIN form.checks THEN form.checks[id] ELSE FALSE

\* s.split(',') from position i on, part being the piece read so far
RECURSIVE split(_, _, _)
split(s, i, part) ==
    IF i > Len(s) THEN <<part>>
    ELSE IF s[i] = "," THEN <<part>> \o split(s, i + 1, <<>>)
    ELSE split(s, i + 1, Append(part, s[i]))

\* the switch of collectFieldTypeConfig; a type it has no case for
\* (autocomplete, date) leaves config empty
collectFieldTypeConfig(fieldType, form, fs) ==
    CASE fieldType = "text" ->
            [placeholder |-> <<>>, maxLength |-> orDefault(parseInt(form.maxLength), 255)]
      [] fieldType = "textarea" ->
            [placeholder |-> <<>>, maxLength |-> orDefault(parseInt(form.maxLength), 255),
             rows |-> orDefault(parseInt(valueOf(form, "rows")), 3)]
      [] fieldType \in OptionTypes ->
            [options |-> collectOptions(form.optionRows, 1),
             allowOther |-> checkedOf(form, "allowOther") \/ FALSE]
      [] fieldType = "data_table_lookup" ->
            [dataTableId |-> valueOf(form, "dataTableSelect"),
             searchable |-> checkedOf(form, "searchable") \/ TRUE,
             multiSelect |-> checkedOf(form, "multiSelect") \/ FALSE,
             minSearchLength |-> orDefault(parseInt(valueOf(form, "minSearchLength")), 2),
             maxResults |-> orDefault(parseInt(valueOf(form, "maxResults")), 10)]
      [] fieldType = "dependent_field" ->
            [dependsOn |-> form.parentField,
             optionsMap |-> collectDependentOptions(form, fs)]
      [] fieldType = "file_upload" ->
            [maxFileSize |-> orDefault(parseInt(valueOf(form, "maxFileSize")), 10),
             allowedTypes |-> LET parts == split(valueOf(form, "allowedTypes"), 1, <<>>)
                              IN [k \in 1..Len(parts) |-> trim(parts[k])],
             multipleFiles |-> checkedOf(form, "multipleFiles") \/ FALSE]
      [] fieldType = "rating" ->
            [maxRating |-> orDefault(parseInt(valueOf(form, "maxRating")), 5),
             ratingStyle |-> IF truthy(valueOf(form, "ratingStyle"))
                             THEN valueOf(form, "ratingStyle") ELSE <<"stars">>,
             allowHalf |-> checkedOf(form, "allowHalf") \/ FALSE]
      [] OTHER -> <<>>

\* collectValidationRules: the page has no #minLength input
collectValidationRules(fieldType, form) ==
    IF fieldType \in {"text", "textarea"} /\ truthy(form.maxLength)
    THEN [maxLength |-> parseInt(form.maxLength)]
    ELSE <<>>

\* the fieldData saveFieldConfiguration builds from the modal
fieldDataOf(fieldType, form, fs) ==
    [field_id |-> form.fieldId,
     field_name |-> form.fieldName,
     field_type |-> fieldType,
     is_required |-> IF form.fieldRequired THEN 1 ELSE 0,
     config |-> collectFieldTypeConfig(fieldType, form, fs),
     validation_rules |-> collectValidationRules(fieldType, form),
     dependencies |-> <<>>]

\* as saveFieldConfiguration, with the store of an edited field at the index
\* after the one being edited
saveFieldConfiguration_nextIndex(ed, form) ==
    LET fieldData == fieldDataOf(ed.currentFieldType, form, ed.fields)
    IN IF ed.editingFieldIndex >= 0
       THEN assign(ed.fields, ed.editingFieldIndex + 1, fieldData)
       ELSE Append(ed.fields, fieldData)

\* the field list saveFieldConfiguration leaves
saveFieldConfiguration(ed, form) ==
    LET fieldData == fieldDataOf(ed.currentFieldType, form, ed.fields)
    IN IF ed.editingFieldIndex >= 0
       THEN assign(ed.fields, ed.editingFieldIndex, fieldData)
       ELSE Append(ed.fields, fieldData)

\* updateFieldsList: one card per field, its position written into
\* data-index and into the onclick arguments of its two buttons
updateFieldsList(fs) ==
    [k \in 1..Len(fs) |->
        [index |-> k - 1, onclick |-> k - 1, field_id |-> fs[k].field_id]]

\* updateFieldNumbers: data-index rewritten in DOM order, the buttons kept
updateFieldNumbers(cards) ==
    [k \in 1..Len(cards) |-> [cards[k] EXCEPT !.index = k - 1]]

\* as onEnd, swapping the two positions
onEnd_swapping(a, oldIndex, newIndex) ==
    [k \in 1..Len(a) |->
        IF k = oldIndex + 1 THEN a[newIndex + 1]
        ELSE IF k = newIndex + 1 THEN a[oldIndex + 1] ELSE a[k]]

\* onEnd of the Sortable: the dragged item is cut out and put in again
onEnd(a, oldIndex, newIndex) ==
    spliceIn(spliceOut(a, oldIndex), newIndex, a[oldIndex + 1])


----------------------------------------------------------------------------
(* Template builder: export *)

digitChar(d) == CHOOSE c \in DOMAIN Digits : Digits[c] = d

RECURSIVE toDigits(_)
toDigits(n) ==
    IF n < 10 THEN <<digitChar(n)>> ELSE toDigits(n \div 10) \o <<digitChar(n % 10)>>

nullToken == <<"n", "u", "l", "l">>

\* JSON.stringify of a number: its decimal digits, and null for NaN
stringifyNumber(x) ==
    IF x.kind # "number" THEN nullToken
    ELSE IF x.n < 0 THEN <<"-">> \o toDigits(0 - x.n) ELSE toDigits(x.n)

\* JSON.parse of a number or null token
parseNumber(token) == IF token = nullToken THEN Null ELSE parseInt(token)

\* the members of config and validation_rules that hold numbers
NumberKeys == {"maxLength"}

stringifyMap(m) ==
    [k \in DOMAIN m |-> IF k \in NumberKeys THEN stringifyNumber(m[k]) ELSE m[k]]

parseMap(m) ==
    [k \in DOMAIN m |-> IF k \in NumberKeys THEN parseNumber(m[k]) ELSE m[k]]

\* JSON.stringify of one element of fields: strings, arrays and objects are
\* written member by member, an empty slot is written as null
stringifyField(f) ==
    IF f = undefined THEN [kind |-> "null"]
    ELSE [f EXCEPT !.config = stringifyMap(@), !.validation_rules = stringifyMap(@)]

parseField(f) ==
    IF DOMAIN f = {"kind"} THEN Null
    ELSE [f EXCEPT !.config = parseMap(@), !.validation_rules = parseMap(@)]

\* the text exportTemplate puts in the downloaded file
exportTemplate(name, fs) ==
    [name |-> name, description |-> <<>>, category |-> <<>>,
     fields |-> [k \in 1..Len(fs) |-> stringifyField(fs[k])],
     version |-> "1.0", exported_at |-> "now"]

\* JSON.parse of an exported file
parseTemplate(file) ==
    [file EXCEPT !.fields = [k \in 1..Len(@) |-> parseField(@[k])]]

----------------------------------------------------------------------------
(* Template builder: the page *)

NameInputs == {<<>>, <<"t">>}

\* what a user leaves in the inputs of a text field and of a select field
TextInputs ==
    { [fieldId |-> "f1", fieldRequired |-> TRUE, maxLength |-> <<"8">>],
      [fieldId |-> "f1", fieldRequired |-> FALSE, maxLength |-> <<"2", "5", "5">>],
      [fieldId |-> "f2", fieldRequired |-> FALSE, maxLength |-> <<".", "5">>] }

SelectInputs ==
    { [fieldId |-> "f2", fieldRequired |-> FALSE,
       optionRows |-> <<Row(<<" ", "y">>, <<>>)>>],
      [fieldId |-> "f2", fieldRequired |-> TRUE,
       optionRows |-> <<Row(<<"x">>, <<"L">>)>>],
      [fieldId |-> "f1", fieldRequired |-> FALSE, optionRows |-> <<>>] }

typeText(form, i) ==
    [form EXCEPT !.fieldId = i.fieldId, !.fieldName = "n",
                 !.fieldRequired = i.fieldRequired, !.maxLength = i.maxLength]

typeSelect(form, i) ==
    [form EXCEPT !.fieldId = i.fieldId, !.fieldName = "n",
                 !.fieldRequired = i.fieldRequired, !.optionRows = i.optionRows]

typeDependent(form, p) ==
    [form EXCEPT !.fieldId = "f3", !.fieldName = "n", !.parentField = p]

\* the type added, and the inputs typed, in a run of the builder that starts
\* from an empty template
BuilderTypes == {"text"}

FormInputs(fieldType, form) ==
    CASE fieldType = "text" ->
            {typeText(form, i) : i \in {j \in TextInputs : j.maxLength = <<"8">>}}
      [] fieldType = "select" ->
            {typeSelect(form, i) : i \in {j \in SelectInputs : j.optionRows # <<>> /\ ~j.fieldRequired}}
      [] OTHER -> {}

\* the event of a step: index and to are the arguments of the handler (for
\* "select" and "edit", to is the index that was being edited before)
NoEdit ==
    [kind |-> "none", index |-> -1, to |-> -1, confirmed |-> FALSE,
     name |-> <<>>, alert |-> "", request |-> <<>>, file |-> <<>>]

\* the rest of the document while the builder or the form editor is open
noForm ==
    /\ fields = {}
    /\ containers = {}
    /\ dependencies = <<>>
    /\ relations = <<>>
    /\ value = <<>>
    /\ visible = <<>>
    /\ depListeners = <<>>
    /\ lookupListeners = {}
    /\ inflight = {}
    /\ nextSeq = 1
    /\ completed = {}

\* the modal once hidden; the inputs it still holds are not read again, as
\* the next showFieldConfigModal resets the form before it shows it
hide == [shown |-> FALSE, form |-> <<>>]

\* new EnhancedTemplateEditor() on the builder page
InitBuilder ==
    /\ pc = "builder"
    /\ noForm
    /\ noValidation
    /\ noWidgets
    /\ templateEditor = [fields |-> <<>>, currentFieldType |-> "null",
                         editingFieldIndex |-> -1]
    /\ fieldsList = <<>>
    /\ modal = hide
    /\ fieldIndex = 0
    /\ fieldEditors = <<>>
    /\ timers = <<>>
    /\ last = NoEdit

builderFrame == UNCHANGED <<formVars, validationVars, widgetVars, fieldIndex, fieldEditors, timers>>

\* as selectFieldType, keeping editingFieldIndex as it is
selectFieldType_keepingIndex(ed, fieldType) ==
    [ed EXCEPT !.currentFieldType = fieldType]

\* selectFieldType: the editor fields it writes
selectFieldType(ed, fieldType) ==
    [ed EXCEPT !.currentFieldType = fieldType, !.editingFieldIndex = -1]

\* a click on a .field-type-card
SelectFieldType(fieldType) ==
    /\ pc = "builder"
    /\ ~modal.shown
    /\ Len(templateEditor.fields) < MaxFields
    /\ templateEditor' = selectFieldType(templateEditor, fieldType)
    /\ modal' = showFieldConfigModal(fieldType, <<>>, templateEditor.fields)
    /\ last' = [NoEdit EXCEPT !.kind = "select", !.to = templateEditor.editingFieldIndex]
    /\ UNCHANGED fieldsList
    /\ builderFrame

\* a click on the edit button of the card at DOM position c: editField(index)
\* with the index its onclick holds
EditField(c) ==
    /\ pc = "builder"
    /\ ~modal.shown
    /\ c \in 1..Len(fieldsList)
    /\ LET index == fieldsList[c].onclick
           field == templateEditor.fields[index + 1]
       IN /\ templateEditor' = [templateEditor EXCEPT
                                   !.editingFieldIndex = index,
                                   !.currentFieldType = field.field_type]
          /\ modal' = showFieldConfigModal(field.field_type, <<field>>,
                                           templateEditor.fields)
          /\ last' = [NoEdit EXCEPT !.kind = "edit", !.index = index,
                                    !.to = templateEditor.editingFieldIndex]
    /\ UNCHANGED fieldsList
    /\ builderFrame

\* the user types into the modal
FillForm(form) ==
    /\ pc = "builder"
    /\ modal.shown
    /\ form # modal.form
    /\ modal' = [modal EXCEPT !.form = form]
    /\ last' = [NoEdit EXCEPT !.kind = "fill"]
    /\ UNCHANGED <<templateEditor, fieldsList>>
    /\ builderFrame

\* a click on #saveFieldConfig
SaveFieldConfiguration ==
    /\ pc = "builder"
    /\ modal.shown
    /\ templateEditor' = [templateEditor EXCEPT
                             !.fields = saveFieldConfiguration(templateEditor, modal.form)]
    /\ fieldsList' = updateFieldsList(templateEditor'.fields)
    /\ modal' = hide
    /\ last' = [NoEdit EXCEPT !.kind = "saveField",
                              !.index = templateEditor.editingFieldIndex]
    /\ builderFrame

\* the modal is dismissed
CancelModal ==
    /\ pc = "builder"
    /\ modal.shown
    /\ modal' = hide
    /\ last' = [NoEdit EXCEPT !.kind = "cancel"]
    /\ UNCHANGED <<templateEditor, fieldsList>>
    /\ builderFrame

\* deleteField(index), confirmed being the answer to confirm()
deleteField(fs, index, confirmed) ==
    IF confirmed THEN spliceOut(fs, index) ELSE fs

\* a click on the delete button of the card at DOM position c
DeleteField(c, confirmed) ==
    /\ pc = "builder"
    /\ ~modal.shown
    /\ c \in 1..Len(fieldsList)
    /\ LET index == fieldsList[c].onclick
       IN /\ templateEditor' = [templateEditor EXCEPT
                                   !.fields = deleteField(@, index, confirmed)]
          /\ last' = [NoEdit EXCEPT !.kind = "delete", !.index = index,
                                    !.confirmed = confirmed]
    /\ fieldsList' = IF confirmed THEN updateFieldsList(templateEditor'.fields)
                     ELSE fieldsList
    /\ UNCHANGED modal
    /\ builderFrame

\* a card is dragged from DOM position oldIndex to newIndex: the Sortable
\* moves the card, then onEnd moves the field and renumbers the cards
Reorder(oldIndex, newIndex) ==
    /\ pc = "builder"
    /\ ~modal.shown
    /\ oldIndex \in 0..(Len(fieldsList) - 1)
    /\ newIndex \in 0..(Len(fieldsList) - 1)
    /\ templateEditor' = [templateEditor EXCEPT !.fields = onEnd(@, oldIndex, newIndex)]
    /\ fieldsList' = updateFieldNumbers(onEnd(fieldsList, oldIndex, newIndex))
    /\ last' = [NoEdit EXCEPT !.kind = "reorder", !.index = oldIndex, !.to = newIndex]
    /\ UNCHANGED modal
    /\ builderFrame

\* as saveTemplate, without the two early returns
saveTemplate_unchecked(name, fs, outcome) ==
    [alert |-> outcome, request |-> <<[name |-> name, fields |-> fs]>>]

\* saveTemplate: the alert it ends with and the POST it issues, outcome being
\* what the backend answers
saveTemplate(name, fs, outcome) ==
    IF ~truthy(name)
    THEN [alert |-> "Please enter a template name", request |-> <<>>]
    ELSE IF Len(fs) = 0
    THEN [alert |-> "Please add at least one field", request |-> <<>>]
    ELSE [alert |-> outcome, request |-> <<[name |-> name, fields |-> fs]>>]

SaveOutcomes == {"Template saved successfully!", "Error saving template"}

\* a click on #saveTemplate, name being what #templateName holds
SaveTemplate(name, outcome) ==
    /\ pc = "builder"
    /\ ~modal.shown
    /\ LET r == saveTemplate(name, templateEditor.fields, outcome)
       IN last' = [NoEdit EXCEPT !.kind = "saveTemplate", !.name = name,
                                 !.alert = r.alert, !.request = r.request]
    /\ UNCHANGED <<templateEditor, fieldsList, modal>>
    /\ builderFrame

\* a click on #exportTemplate, name being what #templateName holds
ExportTemplate(name) ==
    /\ pc = "builder"
    /\ ~modal.shown
    /\ last' = [NoEdit EXCEPT !.kind = "export", !.name = name,
                   !.file = <<exportTemplate(name, templateEditor.fields)>>]
    /\ UNCHANGED <<templateEditor, fieldsList, modal>>
    /\ builderFrame

Select == \E t \in BuilderTypes : SelectFieldType(t)
Edit == \E c \in 1..Len(fieldsList) : EditField(c)
Fill ==
    /\ modal.shown
    /\ \E form \in FormInputs(templateEditor.currentFieldType, modal.form) : FillForm(form)
Delete == \E c \in 1..Len(fieldsList), confirmed \in BOOLEAN : DeleteField(c, confirmed)
Drag == \E oldIndex \in 0..(Len(fieldsList) - 1), newIndex \in 0..(Len(fieldsList) - 1) :
            Reorder(oldIndex, newIndex)
Save == \E name \in NameInputs, outcome \in SaveOutcomes : SaveTemplate(name, outcome)
Export == \E name \in NameInputs : ExportTemplate(name)

NextBuilder ==
    \/ Select \/ Edit \/ Fill \/ SaveFieldConfiguration \/ CancelModal
    \/ Delete \/ Drag \/ Save \/ Export



----------------------------------------------------------------------------
(* Template form editor (template-editor.js) *)

MaxFieldIndex == 4   \* the value the counter fieldIndex is let grow to

\* the numbers of .field-editor elements the server renders
InitialCounts == {0, 1, 3}

\* a .field-editor: id is the INDEX its markup was rendered with, index its
\* data-field-index, number the n of its "Field n" header, button the
\* data-field-index its add-option button was rendered with (-1 once the
\* button is gone), toggled whether toggleFieldOptions has run on it, added
\* whether addField appended it (the server rendered it otherwise)
Editor(id, index, toggled) ==
    [id |-> id, index |-> index, number |-> index + 1, button |-> index,
     toggled |-> toggled, added |-> FALSE]

\* as updateAllFieldNumbers, leaving every element as it is
updateAllFieldNumbers_skipped(editors) == editors

\* updateAllFieldNumbers: data-field-index and header follow the DOM order
updateAllFieldNumbers(editors) ==
    [k \in 1..Len(editors) |->
        [editors[k] EXCEPT !.index = k - 1, !.number = k]]

\* document.querySelector('[data-field-index="index"]'): the first element in
\* document order carrying the attribute, an editor before its own button;
\* <<>> when there is none, else <<position, "editor" or "button">>
querySelector(editors, index) ==
    LET hits == {k \in 1..Len(editors) :
                    editors[k].index = index \/ editors[k].button = index}
    IN IF hits = {} THEN <<>>
       ELSE LET k == CHOOSE x \in hits : \A y \in hits : x <= y
            IN <<k, IF editors[k].index = index THEN "editor" ELSE "button">>

\* element.remove() on what querySelector found
remove(editors, hit) ==
    IF hit[2] = "editor" THEN spliceOut(editors, hit[1] - 1)
    ELSE [editors EXCEPT ![hit[1]].button = -1]

removeField(editors, index) ==
    LET fieldDiv == querySelector(editors, index)
    IN IF fieldDiv = <<>> THEN editors
       ELSE updateAllFieldNumbers(remove(editors, fieldDiv))

\* toggleFieldOptions(index, type): a button has no .field-type-option
toggleFieldOptions(editors, index) ==
    LET fieldEditor == querySelector(editors, index)
    IN IF fieldEditor = <<>> \/ fieldEditor[2] = "button" THEN editors
       ELSE [editors EXCEPT ![fieldEditor[1]].toggled = TRUE]

\* addField up to its setTimeout
addField(editors, counter) ==
    updateAllFieldNumbers(
        Append(editors, [Editor(counter, counter, FALSE) EXCEPT !.added = TRUE]))

Timer(do, index) == [do |-> do, index |-> index]

\* the callbacks initializeExistingFields schedules for fields 0..n-1
initializeExistingFields(n) == [k \in 1..n |-> Timer("toggle", k - 1)]

\* DOMContentLoaded of template-editor.js on a page with n rendered editors
InitTemplate ==
    /\ pc = "template"
    /\ noForm
    /\ noValidation
    /\ noWidgets
    /\ templateEditor = [fields |-> <<>>, currentFieldType |-> "null",
                         editingFieldIndex |-> -1]
    /\ fieldsList = <<>>
    /\ modal = hide
    /\ \E n \in InitialCounts, hasTemplate \in BOOLEAN :
          /\ fieldEditors = [k \in 1..n |-> Editor(k - 1, k - 1, FALSE)]
          /\ fieldIndex = (IF n = 0 THEN 3 ELSE n)
          /\ timers = <<Timer("renumber", 0)>> \o
                      (IF hasTemplate THEN initializeExistingFields(n)
                       ELSE <<Timer("toggle", 2)>>)
    /\ last = NoEdit

templateFrame == UNCHANGED <<formVars, validationVars, widgetVars, templateEditor, fieldsList, modal>>

\* a click on the add-field button
AddField ==
    /\ pc = "template"
    /\ fieldIndex < MaxFieldIndex
    /\ fieldEditors' = addField(fieldEditors, fieldIndex)
    /\ fieldIndex' = fieldIndex + 1
    /\ timers' = Append(timers, Timer("toggleNew", 0))
    /\ last' = [NoEdit EXCEPT !.kind = "add"]
    /\ templateFrame

\* a click on the .remove-field-btn of the editor at DOM position c: the
\* editor goes without any question being asked
RemoveField(c) ==
    /\ pc = "template"
    /\ c \in 1..Len(fieldEditors)
    /\ fieldEditors' = removeField(fieldEditors, fieldEditors[c].index)
    /\ last' = [NoEdit EXCEPT !.kind = "remove", !.index = fieldEditors[c].index]
    /\ UNCHANGED <<fieldIndex, timers>>
    /\ templateFrame

\* the oldest setTimeout callback runs
TimerFires ==
    /\ pc = "template"
    /\ timers # <<>>
    /\ LET t == Head(timers)
       IN fieldEditors' =
            CASE t.do = "renumber" -> updateAllFieldNumbers(fieldEditors)
              [] t.do = "toggle" -> toggleFieldOptions(fieldEditors, t.index)
              [] OTHER -> toggleFieldOptions(fieldEditors, fieldIndex - 1)
    /\ timers' = Tail(timers)
    /\ last' = [NoEdit EXCEPT !.kind = "timer"]
    /\ UNCHANGED fieldIndex
    /\ templateFrame

Remove == \E c \in 1..Len(fieldEditors) : RemoveField(c)

NextTemplate == AddField \/ Remove \/ TimerFires

----------------------------------------------------------------------------
(* The two editors *)

InitEditor == InitBuilder \/ InitTemplate

NextEditor == NextBuilder \/ NextTemplate

SpecEditor == InitEditor /\ [][NextEditor]_vars


----------------------------------------------------------------------------
(* The builder on a template whose fields have been configured: every list  *)
(* of up to MaxConfigured fields that adding fields one by one can leave    *)

MaxConfigured == 2   \* fields of a configured template

\* what the modal of a new field of type fieldType can hold when saved
ConfiguredForms(fieldType, fs) ==
    LET form == configureFieldTypeSettings(fieldType, fs) IN
    CASE fieldType = "text" -> {typeText(form, i) : i \in TextInputs}
      [] fieldType = "select" -> {typeSelect(form, i) : i \in SelectInputs}
      [] OTHER -> {typeDependent(form, p) : p \in form.parents \cup {""}}

RECURSIVE ConfiguredLists(_)
ConfiguredLists(n) ==
    IF n = 0 THEN {<<>>}
    ELSE LET shorter == ConfiguredLists(n - 1)
         IN shorter \cup
            {Append(fs, fieldDataOf(t, form, fs)) :
                <<fs, t, form>> \in
                   UNION {{<<fs2, t2, form2>> : form2 \in ConfiguredForms(t2, fs2)} :
                              <<fs2, t2>> \in {f \in shorter : Len(f) = n - 1} \X FieldTypes}}

InitConfig ==
    /\ pc = "builder"
    /\ noForm
    /\ noValidation
    /\ noWidgets
    /\ \E fs \in ConfiguredLists(MaxConfigured) :
          /\ templateEditor = [fields |-> fs, currentFieldType |-> "null",
                               editingFieldIndex |-> -1]
          /\ fieldsList = updateFieldsList(fs)
    /\ modal = hide
    /\ fieldIndex = 0
    /\ fieldEditors = <<>>
    /\ timers = <<>>
    /\ last = NoEdit

NextConfig == Edit \/ SaveFieldConfiguration \/ CancelModal \/ Export

SpecConfig == InitConfig /\ [][NextConfig]_vars


----------------------------------------------------------------------------
(* The two editors: what the claims state (SpecEditor) *)

\* the list a with its element at position k (from 1) left out
without(a, k) == [j \in 1..(Len(a) - 1) |-> IF j < k THEN a[j] ELSE a[j + 1]]

\* C12: a drag from oldIndex to newIndex leaves a field list of the same
\* length that holds the moved field at newIndex and, around it, the other
\* fields in the order they had: the list is a permutation of the old one.
C12_ReorderIsMove ==
    [][last'.kind = "reorder" =>
          LET a == templateEditor.fields
              b == templateEditor'.fields
          IN /\ Len(b) = Len(a)
             /\ b[last'.to + 1] = a[last'.index + 1]
             /\ without(b, last'.to + 1) = without(a, last'.index + 1)]_vars

\* a field has been dragged across another one, from the first position to
\* the third, in a list whose first two fields differ
C12_Witness ==
    /\ last.kind = "reorder"
    /\ last.index = 0
    /\ last.to = 2
    /\ templateEditor.fields[1] # templateEditor.fields[2]

\* C13: in both editors the index every element stores and the number it
\* displays are its current position: the k-th .field-editor has
\* data-field-index k-1 and the header "Field k", the k-th .field-card has
\* data-index k-1, so the indices are 0..n-1 without gap or duplicate.
C13_NumbersFollowPositions ==
    /\ \A k \in 1..Len(fieldEditors) :
          fieldEditors[k].index = k - 1 /\ fieldEditors[k].number = k
    /\ \A k \in 1..Len(fieldsList) : fieldsList[k].index = k - 1

\* a field editor was added after a removal: it was created with the index
\* the counter held, which is not its position
C13_Witness ==
    /\ last.kind = "add"
    /\ fieldIndex > Len(fieldEditors)
    /\ Len(fieldEditors) >= 2

\* C14: a save of a template whose name is empty, or that has no field, ends
\* in a validation alert, sends no request and leaves the field list as it
\* was.
C14_InvalidTemplateIsNotSent ==
    [][(last'.kind = "saveTemplate"
          /\ (last'.name = <<>> \/ Len(templateEditor.fields) = 0)) =>
          /\ last'.request = <<>>
          /\ last'.alert \in {"Please enter a template name",
                              "Please add at least one field"}
          /\ templateEditor'.fields = templateEditor.fields]_vars

\* a template with fields and no name has been saved
C14_Witness ==
    /\ last.kind = "saveTemplate"
    /\ last.name = <<>>
    /\ Len(templateEditor.fields) > 0
    /\ last.alert = "Please enter a template name"

\* the list b is the list a but for position k (from 1), or a with one
\* more field when k is past its end
onlyAt(a, b, k) ==
    /\ Len(b) = (IF k > Len(a) THEN Len(a) + 1 ELSE Len(a))
    /\ \A j \in 1..Len(a) : j # k => b[j] = a[j]

\* C17: the builder configures one field at a time. Entering the
\* configuration of a field leaves the field list as it is and makes that
\* field (the new one after a type is picked, the one clicked after an edit
\* click) the one being configured; nothing else changes which field that is;
\* and a save writes that field only: the new field is appended, the edited
\* one is replaced in place.
C17_SaveAppliesToLatestEntered ==
    [][/\ last'.kind \in {"select", "edit"} =>
            /\ templateEditor'.fields = templateEditor.fields
            /\ templateEditor'.editingFieldIndex = last'.index
            /\ modal'.shown
       /\ last'.kind \notin {"select", "edit"} =>
            templateEditor'.editingFieldIndex = templateEditor.editingFieldIndex
       /\ last'.kind = "saveField" =>
            onlyAt(templateEditor.fields, templateEditor'.fields,
                   IF templateEditor.editingFieldIndex >= 0
                   THEN templateEditor.editingFieldIndex + 1
                   ELSE Len(templateEditor.fields) + 1)]_vars

\* the configuration of a new field has been entered while the index of an
\* edited field was still held
C17_Witness ==
    /\ last.kind = "select"
    /\ last.to >= 0
    /\ templateEditor.editingFieldIndex = -1
    /\ modal.shown

\* C18: a deletion changes the field list only after the user has confirmed
\* it, in the builder (deleteField) and in the form editor (removeField):
\* unconfirmed, the list and what is rendered stay as they are; confirmed,
\* the element at the given index is gone and the others keep their order.
C18_DeleteOnlyAfterConfirm ==
    [][/\ last'.kind = "delete" =>
            IF last'.confirmed
            THEN templateEditor'.fields =
                    without(templateEditor.fields, last'.index + 1)
            ELSE templateEditor'.fields = templateEditor.fields
                 /\ fieldsList' = fieldsList
       /\ last'.kind = "remove" =>
            IF last'.confirmed
            THEN [k \in 1..Len(fieldEditors') |-> fieldEditors'[k].id] =
                    without([k \in 1..Len(fieldEditors) |-> fieldEditors[k].id],
                            last'.index + 1)
            ELSE fieldEditors' = fieldEditors]_vars

----------------------------------------------------------------------------
(* The configured template: what the claims state (SpecConfig) *)

\* C15: the file an export writes parses back to the field list of the
\* editor, the per-parent-option map of a dependent field included.
C15_ExportRoundTrips ==
    last.kind = "export" =>
        parseTemplate(last.file[1]).fields = templateEditor.fields

\* C16: opening a field for editing and saving it with nothing changed
\* leaves its definition, and so the field list, as it was.
C16_EditSaveIsIdentity ==
    [][(last.kind = "edit" /\ last'.kind = "saveField") =>
          templateEditor'.fields = templateEditor.fields]_vars


----------------------------------------------------------------------------
(* Validation of the case form (enhanced-case-form.js) *)

\* /^[^\s@]+@[^\s@]+\.[^\s@]+$/ : one "@", no white space, something before
\* the "@", and after it a "." with something on both sides
emailRegex(s) ==
    \E i \in 2..Len(s) :
        /\ s[i] = "@"
        /\ \A k \in 1..Len(s) : k # i => s[k] \notin Whitespace \cup {"@"}
        /\ \E j \in (i + 2)..(Len(s) - 1) : s[j] = "."

SchemeChars == {"a", "b"}

\* whether new URL(s) returns: without a base the string has to start, once
\* the white space around it is stripped, with a scheme and ":". Only the
\* schemes that are not special (not http, file, ...) are drawn, for which
\* whatever follows the colon is accepted.
constructsURL(s) ==
    LET t == trim(s) IN
    \E i \in 2..Len(t) : t[i] = ":" /\ \A k \in 1..(i - 1) : t[k] \in SchemeChars

Attributes(type, required, maxlength, checked) ==
    [type |-> type, required |-> required, maxlength |-> maxlength, checked |-> checked]

NoFeedback == [error |-> FALSE, success |-> FALSE, message |-> ""]

showFieldError(shown, message) == [error |-> TRUE, success |-> FALSE, message |-> message]

showFieldSuccess(shown) == [error |-> FALSE, success |-> TRUE, message |-> ""]

clearFieldError(shown) == [shown EXCEPT !.error = FALSE, !.message = ""]

ChoiceTypes == {"checkbox", "radio"}

\* as missing, with a scalar value compared without trim()
missing_untrimmed(a, v) ==
    a.required /\ (IF a.type \in ChoiceTypes THEN ~a.checked
                   ELSE ~truthy(v))

\* the required test of validateField; a.checked tells whether the field's
\* container holds a checked input of the field's type
missing(a, v) ==
    a.required /\ (IF a.type \in ChoiceTypes THEN ~a.checked
                   ELSE ~truthy(v) \/ trim(v) = <<>>)

\* the type-specific test of validateField
malformed(a, v) ==
    truthy(v) /\ ((a.type = "email" /\ ~emailRegex(v))
                  \/ (a.type = "url" /\ ~constructsURL(v)))

\* the maxlength test of validateField
tooLong(a, v) ==
    /\ truthy(v)
    /\ truthy(a.maxlength)
    /\ parseInt(a.maxlength).kind = "number"
    /\ Len(v) > parseInt(a.maxlength).n

\* the message validateField ends with: each failing test overwrites it
errorMessage(a, v) ==
    IF tooLong(a, v) THEN "Maximum length"
    ELSE IF malformed(a, v)
         THEN (IF a.type = "email" THEN "Please enter a valid email address"
               ELSE "Please enter a valid URL")
         ELSE "This field is required"

\* as validateField, without the return for a hidden container
validateField_hiddenChecked(a, v, shown, hidden) ==
    LET isValid == ~missing(a, v) /\ ~malformed(a, v) /\ ~tooLong(a, v)
    IN [isValid |-> isValid,
        shown |-> IF isValid THEN showFieldSuccess(shown)
                  ELSE showFieldError(shown, errorMessage(a, v))]

\* validateField on a field with attributes a and value v whose container
\* shows shown and is hidden or not: what it returns and what the container
\* shows afterwards
validateField(a, v, shown, hidden) ==
    IF hidden THEN [isValid |-> TRUE, shown |-> shown]
    ELSE LET isValid == ~missing(a, v) /\ ~malformed(a, v) /\ ~tooLong(a, v)
         IN [isValid |-> isValid,
             shown |-> IF isValid THEN showFieldSuccess(shown)
                       ELSE showFieldError(shown, errorMessage(a, v))]

\* the .case-field elements of #caseForm in document order
CaseFields == <<"A", "B">>

\* what validateField returns for each field
verdicts(as, vs, shown, vis) ==
    [f \in DOMAIN as |-> validateField(as[f], vs[f], shown[f], ~vis[f]).isValid]

\* as validateForm, stopping at the first field that fails
validateForm_firstFailureStops(as, vs, shown, vis) ==
    LET ok == verdicts(as, vs, shown, vis)
        failing == {k \in 1..Len(CaseFields) : ~ok[CaseFields[k]]}
        stop == IF failing = {} THEN Len(CaseFields)
                ELSE CHOOSE k \in failing : \A j \in failing : k <= j
    IN [isValid |-> failing = {},
        shown |-> [f \in DOMAIN as |->
                     IF \E k \in 1..stop : CaseFields[k] = f
                     THEN validateField(as[f], vs[f], shown[f], ~vis[f]).shown
                     ELSE shown[f]]]

\* validateForm: every field is validated, one failure makes the form fail
validateForm(as, vs, shown, vis) ==
    [isValid |-> \A f \in DOMAIN as : verdicts(as, vs, shown, vis)[f],
     shown |-> [f \in DOMAIN as |->
                  validateField(as[f], vs[f], shown[f], ~vis[f]).shown]]

\* the values and attributes a .case-field is rendered with
FieldValues ==
    { <<>>, <<" ">>, <<"a">>, <<"a", "a", "a">>, <<" ", " ", " ">>,
      <<"a", "@", "a", ".", "a">>, <<"a", "@", "a">>, <<"a", ":", "a">> }

MaxLengths == {<<>>, <<"2">>}

FieldAttributes ==
    {Attributes(t, r, m, FALSE) : t \in {"text", "email", "url"}, r \in BOOLEAN, m \in MaxLengths}
    \cup {Attributes(t, r, <<>>, c) : t \in ChoiceTypes, r \in BOOLEAN, c \in BOOLEAN}

NoSubmit == [kind |-> "none", field |-> "", isValid |-> TRUE, prevented |-> FALSE,
             verdicts |-> <<>>]

\* a rendered case form with two fields in a .field-container each: A with
\* any attributes and value, B a required text field
InitValidate ==
    /\ pc = "validate"
    /\ fields = {"A", "B"}
    /\ containers = {"A", "B"}
    /\ dependencies = <<>>
    /\ relations = <<>>
    /\ \E a \in FieldAttributes, va \in FieldValues, vb \in {<<>>, <<"a">>} :
          /\ attributes = ("A" :> a) @@ ("B" :> Attributes("text", TRUE, <<>>, FALSE))
          /\ value = ("A" :> (IF a.type \in ChoiceTypes THEN <<"o", "n">> ELSE va))
                     @@ ("B" :> vb)
    /\ visible \in [{"A", "B"} -> BOOLEAN]
    /\ feedback = [f \in {"A", "B"} |-> NoFeedback]
    /\ depListeners = <<>>
    /\ lookupListeners = {}
    /\ inflight = {}
    /\ nextSeq = 1
    /\ completed = {}
    /\ noEditor
    /\ noWidgets
    /\ last = NoSubmit

validationFrame ==
    UNCHANGED <<fields, containers, dependencies, relations, depListeners,
                lookupListeners, inflight, nextSeq, completed, editorVars,
                widgetVars>>

\* a visible field loses the focus
Blur(f) ==
    /\ pc = "validate"
    /\ f \in fields
    /\ visible[f]
    /\ LET r == validateField(attributes[f], value[f], feedback[f], ~visible[f])
       IN /\ feedback' = [feedback EXCEPT ![f] = r.shown]
          /\ last' = [NoSubmit EXCEPT !.kind = "blur", !.field = f, !.isValid = r.isValid]
    /\ UNCHANGED <<value, visible, attributes, pc>>
    /\ validationFrame

\* the user types in a visible text, email or url field
Input(f, v) ==
    /\ pc = "validate"
    /\ f \in fields
    /\ visible[f]
    /\ attributes[f].type \notin ChoiceTypes
    /\ v # value[f]
    /\ value' = [value EXCEPT ![f] = v]
    /\ feedback' = [feedback EXCEPT ![f] = clearFieldError(@)]
    /\ last' = [NoSubmit EXCEPT !.kind = "input", !.field = f]
    /\ UNCHANGED <<visible, attributes, pc>>
    /\ validationFrame

\* the user clicks an input of a visible choice group: a checkbox changes
\* its state, a radio button becomes the checked one of its group; the click
\* fires the input event
Click(f) ==
    /\ pc = "validate"
    /\ f \in fields
    /\ visible[f]
    /\ attributes[f].type \in ChoiceTypes
    /\ attributes[f].type = "radio" => ~attributes[f].checked
    /\ attributes' = [attributes EXCEPT ![f].checked = ~@]
    /\ feedback' = [feedback EXCEPT ![f] = clearFieldError(@)]
    /\ last' = [NoSubmit EXCEPT !.kind = "click", !.field = f]
    /\ UNCHANGED <<value, visible, pc>>
    /\ validationFrame

\* the submit event of #caseForm: the form goes to the server unless the
\* listener calls preventDefault
Submit ==
    /\ pc = "validate"
    /\ LET r == validateForm(attributes, value, feedback, visible)
       IN /\ feedback' = r.shown
          /\ pc' = IF r.isValid THEN "submitted" ELSE pc
          /\ last' = [NoSubmit EXCEPT !.kind = "submit", !.isValid = r.isValid,
                         !.prevented = ~r.isValid,
                         !.verdicts = verdicts(attributes, value, feedback, visible)]
    /\ UNCHANGED <<value, visible, attributes>>
    /\ validationFrame

LoseFocus == \E f \in {"A", "B"} : Blur(f)
Type == \E f \in {"A", "B"}, v \in UserInputs : Input(f, v)
Choose == \E f \in {"A", "B"} : Click(f)

NextValidate == LoseFocus \/ Type \/ Choose \/ Submit

SpecValidate == InitValidate /\ [][NextValidate]_vars

----------------------------------------------------------------------------
(* Validation: what the claims state (SpecValidate) *)

\* a field that validation would reject were its container shown
wouldFail(f) ==
    \/ attributes[f].required /\ attributes[f].type \notin ChoiceTypes /\ trim(value[f]) = <<>>
    \/ attributes[f].required /\ attributes[f].type \in ChoiceTypes /\ ~attributes[f].checked
    \/ attributes[f].maxlength = <<"2">> /\ Len(value[f]) > 2
    \/ attributes[f].type = "email" /\ value[f] \in {<<"a">>, <<"a", "a", "a">>, <<"a", "@", "a">>, <<"a", ":", "a">>, <<" ">>, <<" ", " ", " ">>}
    \/ attributes[f].type = "url" /\ value[f] \in {<<"a">>, <<"a", "a", "a">>, <<"a", "@", "a">>, <<"a", "@", "a", ".", "a">>, <<" ">>, <<" ", " ", " ">>}

\* C19: a field whose container is hidden is exempt from validation: on a
\* submit validateField returns valid for it, whatever its value, required
\* flag, type and maxlength, and its container shows what it showed before.
C19_HiddenFieldIsExempt ==
    [][last'.kind = "submit" =>
          \A f \in fields :
              ~visible[f] => last'.verdicts[f] /\ feedback'[f] = feedback[f]]_vars

\* a submit has passed over a hidden field that validation would reject
C19_Witness ==
    /\ last.kind = "submit"
    /\ \E f \in fields : ~visible[f] /\ wouldFail(f) /\ last.verdicts[f]
                         /\ ~feedback[f].error

\* C20: a submit validates every field and is blocked exactly when some
\* visible field fails: each visible field's container then shows its own
\* verdict, and the form is submitted when, and only when, none fails.
C20_SubmitBlockedIffVisibleFails ==
    [][last'.kind = "submit" =>
          /\ last'.prevented <=> (\E f \in fields : visible[f] /\ wouldFail(f))
          /\ (pc' = "submitted") <=> ~last'.prevented
          /\ \A f \in fields :
                visible[f] => (feedback'[f].error <=> wouldFail(f))
                              /\ (feedback'[f].success <=> ~wouldFail(f))]_vars

\* a submit was blocked by the second field alone, and one in which both
\* fields fail has marked both
C20_Witness ==
    /\ last.kind = "submit"
    /\ last.prevented
    /\ visible["A"] /\ visible["B"]
    /\ feedback["A"].error
    /\ feedback["B"].error

\* C21: when validation runs on a visible required field, it fails if the
\* field is a checkbox or radio group with no option checked, and it fails if
\* the field is a scalar whose value is empty once white space is trimmed; on
\* a visible field that is not required the message of the required check is
\* never shown, and an empty value passes.
C21_RequiredCheck ==
    [][\A f \in fields :
          (visible[f] /\ (last'.kind = "submit"
                          \/ (last'.kind = "blur" /\ last'.field = f))) =>
             LET a == attributes[f]
                 ok == IF last'.kind = "submit" THEN last'.verdicts[f]
                       ELSE last'.isValid
             IN /\ (a.required /\ a.type \in ChoiceTypes /\ ~a.checked) => ~ok
                /\ (a.required /\ a.type \notin ChoiceTypes
                       /\ \A k \in 1..Len(value[f]) : value[f][k] \in Whitespace)
                      => ~ok
                /\ ~ok => feedback'[f].error
                /\ ~a.required => feedback'[f].message # "This field is required"
                /\ (~a.required /\ value[f] = <<>>) => ok]_vars

\* a required field holding only white space has just failed on blur with
\* the message of the required check
C21_Witness ==
    /\ last.kind = "blur"
    /\ ~last.isValid
    /\ attributes[last.field].required
    /\ value[last.field] \in {<<" ">>, <<" ", " ", " ">>}
    /\ feedback[last.field].message = "This field is required"

----------------------------------------------------------------------------
(* Rating widgets of the case form (enhanced-case-form.js) *)

MaxStars == 5

\* the inline colours the handlers write; "" is a label never written, which
\* the style sheet colours
highlight == "#ffc107"
plain == "#ddd"

\* a .rating-field of n radio inputs and n labels; indices count from 0, and
\* -1 stands for no checked input and for a pointer outside the labels
RatingField(labels, checked, pointer) ==
    [labels |-> labels, checked |-> checked, pointer |-> pointer]

\* the mouseenter listener of label index
mouseenter(labels, index) ==
    [i \in 1..Len(labels) |-> IF i - 1 <= index THEN highlight ELSE labels[i]]

\* the mouseleave listener of a label; checked is
\* Array.from(inputs).indexOf(checkedInput), or -1 without a checked input
mouseleave(labels, checked) ==
    [i \in 1..Len(labels) |->
        IF checked # -1 /\ i - 1 <= checked THEN highlight ELSE plain]

\* the change listener of input selectedIndex
change(labels, selectedIndex) ==
    [i \in 1..Len(labels) |-> IF i - 1 <= selectedIndex THEN highlight ELSE plain]

NoPointer == [kind |-> "none", index |-> -1]

\* a rendered rating widget, with or without a value, the pointer elsewhere
InitRating ==
    /\ pc = "rating"
    /\ noForm
    /\ noEditor
    /\ noValidation
    /\ selectField = <<>>
    /\ \E checked \in -1..(MaxStars - 1) :
          ratingField = RatingField([i \in 1..MaxStars |-> ""], checked, -1)
    /\ last = NoPointer

ratingFrame == UNCHANGED <<formVars, editorVars, validationVars, selectField>>

\* the pointer moves onto label index
MouseEnter(index) ==
    /\ pc = "rating"
    /\ ratingField.pointer = -1
    /\ ratingField' = [ratingField EXCEPT
                          !.labels = mouseenter(@, index), !.pointer = index]
    /\ last' = [kind |-> "mouseenter", index |-> index]
    /\ ratingFrame

\* the pointer moves off the label it is on
MouseLeave ==
    /\ pc = "rating"
    /\ ratingField.pointer # -1
    /\ ratingField' = [ratingField EXCEPT
                          !.labels = mouseleave(@, ratingField.checked),
                          !.pointer = -1]
    /\ last' = [kind |-> "mouseleave", index |-> ratingField.pointer]
    /\ ratingFrame

\* another input of the group becomes the checked one, by a click on its
\* label or from the keyboard
InputChange(selectedIndex) ==
    /\ pc = "rating"
    /\ selectedIndex # ratingField.checked
    /\ ratingField' = [ratingField EXCEPT
                          !.labels = change(@, selectedIndex),
                          !.checked = selectedIndex]
    /\ last' = [kind |-> "change", index |-> selectedIndex]
    /\ ratingFrame

Hover == \E index \in 0..(MaxStars - 1) : MouseEnter(index)
Rate == \E index \in 0..(MaxStars - 1) : InputChange(index)

NextRating == Hover \/ MouseLeave \/ Rate

SpecRating == InitRating /\ [][NextRating]_vars

\* the positions of the labels coloured as highlighted
highlighted ==
    {i \in 0..(Len(ratingField.labels) - 1) : ratingField.labels[i + 1] = highlight}

\* C22: while the pointer is on a star the highlighted stars are exactly
\* those up to it, and once the pointer has left they are exactly those up
\* to the checked input, none when no input is checked, whatever the order
\* of the hover, leave and select events before.
C22_HighlightFollowsPointer ==
    (pc = "rating" /\ last.kind # "none") =>
        highlighted = IF ratingField.pointer # -1 THEN 0..ratingField.pointer
                      ELSE 0..ratingField.checked

----------------------------------------------------------------------------
(* Template builder: the field ids of a template (SpecEditor) *)

\* C23: field_id is unique within a template: whatever fields have been
\* added and edited, no two fields of the builder's list have the same
\* field_id.
C23_FieldIdsUnique ==
    \A i, j \in 1..Len(templateEditor.fields) :
        i # j => templateEditor.fields[i].field_id # templateEditor.fields[j].field_id

----------------------------------------------------------------------------
(* Table-backed select fields of the case form (enhanced-case-form.js) *)

\* String.prototype.toLowerCase on the letters drawn
toLowerCase(s) ==
    [k \in 1..Len(s) |-> CASE s[k] = "A" -> "a" [] s[k] = "B" -> "b" [] OTHER -> s[k]]

\* x || y on two strings
or(x, y) == IF truthy(x) THEN x ELSE y

Option(v, text) == [value |-> v, textContent |-> text]

\* a record of the records response; a key the record lacks reads as <<>>
Record(id, v, display_name, label, name) ==
    [id |-> id, value |-> v, display_name |-> display_name, label |-> label,
     name |-> name]

\* the <option> populateSelectOptions creates for a record
optionOf(record) ==
    Option(or(record.id, record.value),
           or(or(record.display_name, record.label), record.name))

\* populateSelectOptions: every child but the first is removed, then one
\* <option> per record is appended
populateSelectOptions(options, records) ==
    SubSeq(options, 1, IF Len(options) > 1 THEN 1 ELSE Len(options))
        \o [k \in 1..Len(records) |-> optionOf(records[k])]

\* the forEach of the input listener over originalOptions.slice(1): the
\* clones of the options whose text contains the term
RECURSIVE matching(_, _)
matching(originalOptions, searchTerm) ==
    IF originalOptions = <<>> THEN <<>>
    ELSE (IF includes(toLowerCase(Head(originalOptions).textContent), searchTerm)
          THEN <<Head(originalOptions)>> ELSE <<>>)
         \o matching(Tail(originalOptions), searchTerm)

\* the input listener makeFieldSearchable gives the search box
filter(field, typed) ==
    LET searchTerm == toLowerCase(typed)
    IN [field EXCEPT
          !.term = typed,
          !.options = SubSeq(@, 1, IF Len(@) > 1 THEN 1 ELSE Len(@))
                        \o matching(Tail(field.originalOptions), searchTerm),
          !.display = IF truthy(searchTerm) THEN "block" ELSE "none"]

\* makeFieldSearchable: the <select> is hidden behind a search box, and the
\* options it holds at this moment are kept as originalOptions
makeFieldSearchable(field) ==
    [field EXCEPT !.display = "none", !.originalOptions = field.options,
                  !.wired = TRUE]

\* loadDataTableOptions up to the fetch
loadDataTableOptions(field) ==
    IF ~truthy(field.tableId) THEN field
    ELSE [field EXCEPT !.loading = TRUE, !.disabled = TRUE, !.request = "pending"]

\* the body of forEach in initializeDataTableLookups
initializeDataTableLookups(field) ==
    LET loading == IF truthy(field.tableId) THEN loadDataTableOptions(field)
                   ELSE field
    IN IF field.searchable THEN makeFieldSearchable(loading) ELSE loading

\* .then(data => ...): data.records is <<>> when the body has no records
\* key, and <<records>> when it has one
onRecords(field, data) ==
    IF data.success /\ data.records # <<>>
    THEN [field EXCEPT !.options = populateSelectOptions(@, data.records[1]),
                       !.loaded = <<[k \in 1..Len(data.records[1]) |->
                                        optionOf(data.records[1][k])]>>]
    ELSE [field EXCEPT !.shown = showFieldError(@, "Failed to load options")]

\* .catch(error => ...)
onError(field) ==
    [field EXCEPT !.shown = showFieldError(@, "Error loading options")]

\* as finally, removing the loading class only
finally_keepingDisabled(field) ==
    [field EXCEPT !.loading = FALSE, !.request = "settled"]

\* .finally(() => ...)
finally(field) ==
    [field EXCEPT !.loading = FALSE, !.disabled = FALSE, !.request = "settled"]

\* the change listener makeFieldSearchable gives the <select>
picked(field, k) ==
    IF truthy(field.options[k].value)
    THEN [field EXCEPT !.term = field.options[k].textContent, !.display = "none"]
    ELSE field

Placeholder == Option(<<>>, <<"-">>)

RenderedOptions == {<<Placeholder>>, <<Placeholder, Option(<<"0">>, <<"a">>)>>}

RecordLists ==
    { <<>>,
      <<Record(<<"1">>, <<>>, <<>>, <<"A", "b">>, <<>>)>>,
      <<Record(<<"1">>, <<>>, <<>>, <<"A", "b">>, <<>>),
        Record(<<>>, <<"2">>, <<"b">>, <<"x">>, <<>>)>> }

RecordsBodies ==
    {[success |-> ok, records |-> r] :
        ok \in BOOLEAN, r \in {<<>>} \cup {<<l>> : l \in RecordLists}}

SearchTerms == {<<>>, <<"a">>, <<"B">>}

NoLookup == [kind |-> "none", outcome |-> "", typed |-> <<>>]

\* a rendered .data-table-lookup <select> inside a .field-container
InitSelect ==
    /\ pc = "select"
    /\ noForm
    /\ noEditor
    /\ noValidation
    /\ ratingField = <<>>
    /\ \E tableId \in {<<>>, <<"7">>}, searchable \in BOOLEAN,
          options \in RenderedOptions :
          selectField = [tableId |-> tableId, searchable |-> searchable,
                         options |-> options, originalOptions |-> <<>>,
                         wired |-> FALSE, loading |-> FALSE, disabled |-> FALSE,
                         request |-> "none", loaded |-> <<>>, term |-> <<>>,
                         display |-> "", shown |-> NoFeedback]
    /\ last = NoLookup

selectFrame == UNCHANGED <<fields, containers, dependencies, relations, value,
                           visible, depListeners, lookupListeners, inflight,
                           nextSeq, completed, editorVars, validationVars,
                           ratingField>>

\* DOMContentLoaded: initializeDataTableLookups
LoadOptions ==
    /\ pc = "select"
    /\ selectField' = initializeDataTableLookups(selectField)
    /\ pc' = "lookup"
    /\ last' = [NoLookup EXCEPT !.kind = "load"]
    /\ selectFrame

\* the records request resolves with a JSON body
RecordsArrive(data) ==
    /\ pc = "lookup"
    /\ selectField.request = "pending"
    /\ selectField' = finally(onRecords(selectField, data))
    /\ last' = [NoLookup EXCEPT !.kind = "records",
                   !.outcome = IF data.success /\ data.records # <<>>
                               THEN "loaded" ELSE "rejected"]
    /\ UNCHANGED pc
    /\ selectFrame

\* the records request fails in transport, or its body is not JSON
RecordsFail ==
    /\ pc = "lookup"
    /\ selectField.request = "pending"
    /\ selectField' = finally(onError(selectField))
    /\ last' = [NoLookup EXCEPT !.kind = "records", !.outcome = "failed"]
    /\ UNCHANGED pc
    /\ selectFrame

\* the user edits the search box
SearchInput(typed) ==
    /\ pc = "lookup"
    /\ selectField.wired
    /\ typed # selectField.term
    /\ selectField' = filter(selectField, typed)
    /\ last' = [NoLookup EXCEPT !.kind = "search", !.typed = typed]
    /\ UNCHANGED pc
    /\ selectFrame

\* the user picks option k of the <select> while it is shown and enabled
SelectChange(k) ==
    /\ pc = "lookup"
    /\ selectField.wired
    /\ selectField.display = "block"
    /\ ~selectField.disabled
    /\ k \in 1..Len(selectField.options)
    /\ selectField' = picked(selectField, k)
    /\ last' = [NoLookup EXCEPT !.kind = "pick"]
    /\ UNCHANGED pc
    /\ selectFrame

Records == \E data \in RecordsBodies : RecordsArrive(data)
Search == \E typed \in SearchTerms : SearchInput(typed)
Pick == \E k \in 1..3 : SelectChange(k)

NextSelect == LoadOptions \/ Records \/ RecordsFail \/ Search \/ Pick

SpecSelect == InitSelect /\ [][NextSelect]_vars

----------------------------------------------------------------------------
(* Table-backed select fields: what the claims state (SpecSelect) *)

\* C24: once the records have been loaded into a searchable field, a search
\* term leaves, after the field's first option, exactly the loaded options
\* whose label contains the term, and an empty term all the loaded options.
C24_FilterOverLoadedOptions ==
    [][(last'.kind = "search" /\ selectField.loaded # <<>>) =>
          Tail(selectField'.options) =
             matching(selectField.loaded[1], toLowerCase(last'.typed))]_vars

\* C30: a table-backed field is disabled and marked loading for as long as
\* its records request is pending, and the step that settles the request,
\* with records, with a body the backend marked as failed, or with a
\* transport failure, leaves it enabled and unmarked; when the request
\* failed, the field's options are the ones it had and its container shows
\* an error.
C30_DisabledWhileLoading ==
    [][/\ (selectField'.request = "pending") <=>
              (selectField'.disabled /\ selectField'.loading)
       /\ selectField'.request # "pending" =>
              (~selectField'.disabled /\ ~selectField'.loading)
       /\ last'.kind = "load" =>
              (selectField'.request = "pending" <=> truthy(selectField.tableId))
       /\ last'.kind = "records" =>
              /\ selectField.request = "pending"
              /\ selectField'.request = "settled"
              /\ last'.outcome \in {"rejected", "failed"} =>
                    /\ selectField'.options = selectField.options
                    /\ selectField'.shown.error
                    /\ selectField'.shown.message \in
                          {"Failed to load options", "Error loading options"}]_vars

\* a request that the backend rejected has settled on a field that holds
\* options: the field is enabled again and shows the error
C30_Witness ==
    /\ last.kind = "records"
    /\ last.outcome = "rejected"
    /\ ~selectField.disabled
    /\ ~selectField.loading
    /\ selectField.shown.message = "Failed to load options"
    /\ Len(selectField.options) > 1

----------------------------------------------------------------------------
(* Template builder: the configuration collected per field type *)

ConfigTypes ==
    {"text", "textarea", "select", "multiselect", "radio", "checkbox",
     "data_table_lookup", "dependent_field", "autocomplete", "date",
     "file_upload", "rating"}

NumberIds == {"rows", "minSearchLength", "maxResults", "maxFileSize", "maxRating"}

\* what the user may leave in the input or select id, rendered holding v
Edits(id, v) ==
    CASE id \in NumberIds -> {v, <<>>, <<"7">>}
      [] id = "ratingStyle" -> {<<"stars">>, <<"numbers">>}
      [] id = "dataTableSelect" -> {<<>>, <<"7">>}
      [] id = "allowedTypes" -> {<<>>, <<"p", ",", " ", "d">>}
      [] OTHER -> {v}

\* the modal of a new field of the type once the user has filled it in
CollectForms(fieldType) ==
    LET form == configureFieldTypeSettings(fieldType, <<>>)
        ids == DOMAIN form.values
        boxes == DOMAIN form.checks
    IN {[form EXCEPT !.fieldId = "f1", !.fieldName = "n", !.maxLength = m,
                     !.values = vs, !.checks = cs] :
           m \in (IF fieldType \in {"text", "textarea"}
                  THEN {<<"2", "5", "5">>, <<>>, <<"8">>} ELSE {<<>>}),
           vs \in {f \in [ids -> UNION {Edits(id, form.values[id]) : id \in ids}] :
                      \A id \in ids : f[id] \in Edits(id, form.values[id])},
           cs \in [boxes -> BOOLEAN]}

\* the modal is open on a new field of any type, filled in
InitCollect ==
    /\ pc = "builder"
    /\ noForm
    /\ noValidation
    /\ noWidgets
    /\ fieldsList = <<>>
    /\ fieldIndex = 0
    /\ fieldEditors = <<>>
    /\ timers = <<>>
    /\ \E fieldType \in ConfigTypes :
          /\ templateEditor = [fields |-> <<>>, currentFieldType |-> fieldType,
                               editingFieldIndex |-> -1]
          /\ \E form \in CollectForms(fieldType) :
                modal = [shown |-> TRUE, form |-> form]
    /\ last = [NoEdit EXCEPT !.kind = "fill"]

NextCollect == SaveFieldConfiguration \/ CancelModal

SpecCollect == InitCollect /\ [][NextCollect]_vars

\* the config key holds the number in the input id, or d when the input
\* holds nothing
numberOrDefault(saved, key, form, id, d) ==
    /\ key \in DOMAIN saved
    /\ saved[key] = IF valueOf(form, id) = <<>> THEN Num(d)
                      ELSE parseInt(valueOf(form, id))

\* the config key holds the state of the checkbox id
asChecked(saved, key, form, id) ==
    /\ key \in DOMAIN saved
    /\ saved[key] = checkedOf(form, id)

\* C25: the config saved for a field is a fixed mapping of its type: every
\* key of the type holds the value of its input, and the literal default
\* when the input holds nothing: maxLength 255, rows 3 for a textarea,
\* minSearchLength 1 and maxResults 10 for autocomplete, minSearchLength 2
\* and maxResults 10 for data_table_lookup, maxFileSize 10, maxRating 5,
\* ratingStyle 'stars'.
C25_ConfigIsInputOrDefault ==
    [][(last'.kind = "saveField" /\ modal.shown) =>
         LET fieldType == templateEditor.currentFieldType
             form == modal.form
             saved == templateEditor'.fields[Len(templateEditor'.fields)].config
         IN /\ fieldType \in {"text", "textarea"} =>
                  /\ "maxLength" \in DOMAIN saved
                  /\ saved.maxLength = IF form.maxLength = <<>> THEN Num(255)
                                         ELSE parseInt(form.maxLength)
            /\ fieldType = "textarea" => numberOrDefault(saved, "rows", form, "rows", 3)
            /\ fieldType = "autocomplete" =>
                  /\ numberOrDefault(saved, "minSearchLength", form, "minSearchLength", 1)
                  /\ numberOrDefault(saved, "maxResults", form, "maxResults", 10)
            /\ fieldType = "data_table_lookup" =>
                  /\ numberOrDefault(saved, "minSearchLength", form, "minSearchLength", 2)
                  /\ numberOrDefault(saved, "maxResults", form, "maxResults", 10)
                  /\ asChecked(saved, "searchable", form, "searchable")
                  /\ asChecked(saved, "multiSelect", form, "multiSelect")
                  /\ "dataTableId" \in DOMAIN saved
                  /\ saved.dataTableId = valueOf(form, "dataTableSelect")
            /\ fieldType = "file_upload" =>
                  /\ numberOrDefault(saved, "maxFileSize", form, "maxFileSize", 10)
                  /\ asChecked(saved, "multipleFiles", form, "multipleFiles")
            /\ fieldType = "rating" =>
                  /\ numberOrDefault(saved, "maxRating", form, "maxRating", 5)
                  /\ asChecked(saved, "allowHalf", form, "allowHalf")
                  /\ "ratingStyle" \in DOMAIN saved
                  /\ saved.ratingStyle = valueOf(form, "ratingStyle")
            /\ fieldType \in OptionTypes =>
                  asChecked(saved, "allowOther", form, "allowOther")]_vars

----------------------------------------------------------------------------
(* Form load: the change listeners of the visibility rules (Spec) *)

\* the listeners registered on field f
listenersOn(f) ==
    {k \in 1..Len(depListeners) : dependencies[depListeners[k]].triggerId = f}

\* the rules i..Len(deps) whose fields are in the document and whose trigger
\* is f, each evaluated once in declaration order against the value f holds
RECURSIVE evaluatedOnce(_, _, _, _, _, _)
evaluatedOnce(deps, i, f, dom, fs, cs) ==
    IF i > Len(deps) THEN dom
    ELSE IF wirable(deps[i], fs) /\ deps[i].triggerId = f
         THEN evaluatedOnce(deps, i + 1, f,
                  evaluateFieldDependency(deps[i], dom.value[f], dom, cs), fs, cs)
         ELSE evaluatedOnce(deps, i + 1, f, dom, fs, cs)

\* C26 as stated: once a form with a non-empty dependency list has loaded,
\* every field that is the trigger of a rule carries exactly one change
\* listener.
C26_OneListenerPerTrigger ==
    (pc = "ready" /\ Len(dependencies) > 0) =>
        \A i \in 1..Len(dependencies) :
            wirable(dependencies[i], fields) =>
                Cardinality(listenersOn(dependencies[i].triggerId)) = 1

\* C26 amended: the load wires one change listener per rule whose trigger
\* and target are both in the document, in declaration order, so a trigger
\* shared by several rules carries one listener for each of them; one change
\* of a field evaluates each of those rules on that field exactly once, in
\* declaration order.
C26_OneListenerPerWiredRule ==
    [][/\ last'.kind = "load" =>
             /\ \A i \in 1..Len(dependencies) :
                    Cardinality({k \in 1..Len(depListeners') : depListeners'[k] = i})
                       = IF wirable(dependencies[i], fields) THEN 1 ELSE 0
             /\ \A k \in 1..(Len(depListeners') - 1) :
                    depListeners'[k] < depListeners'[k + 1]
       /\ last'.kind = "change" =>
             [value |-> value', visible |-> visible'] =
                evaluatedOnce(dependencies, 1, last'.field,
                              [value |-> [value EXCEPT ![last'.field] = last'.typed],
                               visible |-> visible],
                              fields, containers)]_vars

\* a change of A has run the two listeners A carries, one per rule, and the
\* second rule has hidden what the first one would show
C26_Witness ==
    /\ last.kind = "change"
    /\ last.field = "A"
    /\ Cardinality(listenersOn("A")) = 2
    /\ dependencies[1].targetId = dependencies[2].targetId
    /\ ~visible[dependencies[2].targetId]
    /\ value["A"] = <<"a">>

----------------------------------------------------------------------------
(* Template builder: the index a card hands to editField and deleteField *)
(* (SpecEditor)                                                          *)

\* C27: whatever fields have been added, edited, deleted and dragged, the
\* builder shows one card per field, and the edit and delete buttons of the
\* card at position i call editField and deleteField with i.
C27_CardActsOnItsPosition ==
    pc = "builder" =>
        /\ Len(fieldsList) = Len(templateEditor.fields)
        /\ \A c \in 1..Len(fieldsList) : fieldsList[c].onclick = c - 1

----------------------------------------------------------------------------
(* Template form editor: the deferred initialisation of a new field *)
(* (SpecEditor)                                                     *)

\* C28: every field added by addField gets its type-specific options
\* initialised: once the deferred callbacks have all run, toggleFieldOptions
\* has run on the editor of every field addField appended, whatever adds and
\* removes came before and however many adds preceded the first callback.
C28_AddedFieldIsInitialised ==
    (pc = "template" /\ timers = <<>>) =>
        \A k \in 1..Len(fieldEditors) :
            fieldEditors[k].added => fieldEditors[k].toggled

----------------------------------------------------------------------------
(* Template builder: what a save of the modal does to the field list *)
(* (SpecEditor)                                                      *)

\* C29: a save of the modal changes the field list in one place. For a new
\* field the list grows by one element at its end and the elements it had
\* stay as they were; for an edited field the index being edited is a
\* position of the list, the list keeps its length, and only the element at
\* that index is replaced; no slot of the list is left unwritten. This holds
\* whatever selects, edits, cancels, deletes and reorders came before.
C29_SaveWritesOneValidPlace ==
    [][last'.kind = "saveField" =>
         LET a == templateEditor.fields
             b == templateEditor'.fields
             i == templateEditor.editingFieldIndex
         IN /\ i >= -1
            /\ i = -1 => (Len(b) = Len(a) + 1 /\ SubSeq(b, 1, Len(a)) = a)
            /\ i >= 0 =>
                  /\ i < Len(a)
                  /\ Len(b) = Len(a)
                  /\ \A j \in 1..Len(a) : j # i + 1 => b[j] = a[j]
            /\ \A j \in 1..Len(b) : b[j] # undefined
            /\ b[IF i >= 0 THEN i + 1 ELSE Len(b)]
                  = fieldDataOf(templateEditor.currentFieldType, modal.form, a)]_vars

\* an edited field has been saved in place, in front of a field that differs
\* from it
C29_Witness ==
    /\ pc = "builder"
    /\ last.kind = "saveField"
    /\ last.index = 0
    /\ Len(templateEditor.fields) >= 2
    /\ templateEditor.fields[1] # templateEditor.fields[2]
    /\ templateEditor.fields[1].field_id = "f1"

====
